---------------------------- MODULE Spec2Model ----------------------------
(***************************************************************************)
(* Model of the itinerary optimisation engine of optiway.                  *)
(*                                                                         *)
(*   - app/services/solver_service.py   solve_itinerary  (MILP, TSP + MTZ) *)
(*   - solver_service/models/solver.py  solve_itinerary  (NSGA-II)         *)
(*                                                                         *)
(* Numbers.  Prices are Python floats.  They are modelled in fixed point:  *)
(* an offer's price is an integer number of 1/PriceScale currency units.   *)
(* Durations are integer minutes.  Weights are integers (every use of the  *)
(* weights is invariant under a common positive factor).  A weighted score *)
(* is kept multiplied by PriceScale so that it stays an integer.           *)
(***************************************************************************)
EXTENDS Integers, Sequences, FiniteSets, TLC

VARIABLES
    request,            \* TravelRequest
    flights,            \* List[Flight]
    hotels,             \* List[Hotel]
    pc,                 \* position in solve_itinerary
    all_cities,         \* list of the universe's city names (index i is all_cities[i+1])
    cost_matrix,        \* [<<i,j>> -> price kept for the pair, or M]
    time_matrix,        \* [<<i,j>> -> duration kept for the pair, or M]
    score_matrix,       \* [<<i,j>> -> best score so far, or Inf]   (MILP only)
    flight_data,        \* [<<i,j>> -> <<>> or <<f>>], the offer kept for the pair
    status,             \* LpStatus[prob.status] / response status
    x,                  \* value(x[i, j])                             (MILP only)
    is_start,           \* value(is_start[i])                         (MILP only)
    is_end,             \* value(is_end[i])                           (MILP only)
    current,            \* reconstruction walk: current node
    visited,            \* reconstruction walk: visited set
    itinerary,          \* legs emitted so far
    total_cost_val,     \* accumulated cost   (in 1/PriceScale units)
    total_duration_val, \* accumulated duration
    result,             \* the returned SolverResult, <<>> before return
    context,            \* _context, the module-level SolverContext     (NSGA-II only)
    pop,                \* the population: [ind, fit] per individual     (NSGA-II only)
    gen,                \* generations run so far                        (NSGA-II only)
    best_individual,    \* the individual chosen from the final front    (NSGA-II only)
    calls,              \* the locals of each of several NSGA-II calls in one process
    rng,                \* the state of the module-level generator `random`
    tape                \* the numbers the generator yields after seeding

callVars == <<calls, rng, tape>>

gaVars == <<context, pop, gen, best_individual, callVars>>

vars == <<request, flights, hotels, pc, all_cities, cost_matrix, time_matrix,
          score_matrix, flight_data, status, x, is_start, is_end, current,
          visited, itinerary, total_cost_val, total_duration_val, result, gaVars>>

---------------------------------------------------------------------------
(* Bounds of the model and constants of the program *)

PriceScale == 2          \* fixed-point resolution: a price p stands for p / PriceScale
MaxFlights == 3          \* longest offer list of the competing-offers input family

M == 999999              \* unreachable sentinel

Inf == <<>>              \* float('inf'); a finite score s is kept as <<s>>

Cities == {"BH", "RIO", "SP"}

---------------------------------------------------------------------------
(* Generic helpers *)

Idx(n) == 0 .. (n - 1)

RECURSIVE SumOver(_, _)
SumOver(S, f) ==
    IF S = {} THEN 0
    ELSE LET e == CHOOSE e \in S : TRUE IN f[e] + SumOver(S \ {e}, f)

Perms(S) ==
    {p \in [1 .. Cardinality(S) -> S] : \A a, b \in 1 .. Cardinality(S) : a # b => p[a] # p[b]}

\* int(v) for a non-negative fixed-point value v: truncation to whole units
Trunc(v) == v \div PriceScale

---------------------------------------------------------------------------
(* app/services/solver_service.py : the city universe and the matrices *)

\* set(request.origin_cities + request.destination_cities + request.mandatory_cities)
Universe(req) == req.origin_cities \cup req.destination_cities \cup req.mandatory_cities

\* city_map[city]
CityIndex(cities, c) == CHOOSE i \in Idx(Len(cities)) : cities[i + 1] = c

InCityMap(cities, c) == \E i \in Idx(Len(cities)) : cities[i + 1] = c

\* total_pax = pax_adults + pax_children; if total_pax < 1: total_pax = 1
TotalPax(req) ==
    LET p == req.pax_adults + req.pax_children IN IF p < 1 THEN 1 ELSE p

\* current_score of one offer (times PriceScale)
Score(req, f) ==
    (req.weight_cost * f.price * TotalPax(req))
        + (req.weight_time * f.duration_minutes * PriceScale)

\* variant: every offer overwrites the one kept before
ScoreLessAlways(s, kept) == TRUE

\* current_score < score_matrix[i, j]
ScoreLess(s, kept) == IF kept = Inf THEN TRUE ELSE s < kept[1]

\* what the integer matrix holds after cost_matrix[i, j] = f.price
StoredPrice(p) == Trunc(p)

\* np.full((n, n), M), np.full((n, n), inf), {}
EmptyMatrices(n) ==
    [cost  |-> [p \in Idx(n) \X Idx(n) |-> M],
     time  |-> [p \in Idx(n) \X Idx(n) |-> M],
     score |-> [p \in Idx(n) \X Idx(n) |-> Inf],
     fdata |-> [p \in Idx(n) \X Idx(n) |-> <<>>]]

\* one iteration of "for f in flights"
MatrixStep(req, cities, mats, f) ==
    IF InCityMap(cities, f.origin) /\ InCityMap(cities, f.destination)
    THEN LET i == CityIndex(cities, f.origin)
             j == CityIndex(cities, f.destination)
             current_score == Score(req, f)
         IN  IF ScoreLess(current_score, mats.score[<<i, j>>])
             THEN [cost  |-> [mats.cost  EXCEPT ![<<i, j>>] = StoredPrice(f.price)],
                   time  |-> [mats.time  EXCEPT ![<<i, j>>] = f.duration_minutes],
                   score |-> [mats.score EXCEPT ![<<i, j>>] = <<current_score>>],
                   fdata |-> [mats.fdata EXCEPT ![<<i, j>>] = <<f>>]]
             ELSE mats
    ELSE mats

\* the whole loop over the first k offers
RECURSIVE BuildMatrices(_, _, _, _)
BuildMatrices(req, cities, fl, k) ==
    IF k = 0 THEN EmptyMatrices(Len(cities))
    ELSE MatrixStep(req, cities, BuildMatrices(req, cities, fl, k - 1), fl[k])

\* hotel_cost_map.get(city, 0): the last hotel listed for the city wins
RECURSIVE HotelCost(_, _, _)
HotelCost(hs, k, city) ==
    IF k = 0 THEN 0
    ELSE IF hs[k].city = city THEN hs[k].price_per_night
    ELSE HotelCost(hs, k - 1, city)

---------------------------------------------------------------------------
(* app/services/solver_service.py : the MILP *)

\* the pairs that carry a variable x[i, j]
Arcs(n) == {p \in Idx(n) \X Idx(n) : p[1] # p[2]}

\* variant: no arc is forced to zero
FreeArcsUnforced(n, cost) == Arcs(n)

\* "if f_cost == M: prob += x[i, j] == 0": the arcs left free
FreeArcs(n, cost) == {p \in Arcs(n) : cost[p] # M}

\* stay_cost_total at arrival city j (times PriceScale)
StayCost(req, hs, cities, j) ==
    (HotelCost(hs, Len(hs), cities[j + 1]) * req.stay_days_per_city)
        + (req.daily_cost_per_person * req.stay_days_per_city * TotalPax(req))

\* coefficient of x[i, j] in the objective (times PriceScale)
ArcTerm(req, hs, cities, cost, time, p) ==
    LET total_money == (cost[p] * PriceScale * TotalPax(req)) + StayCost(req, hs, cities, p[2])
        total_time  == time[p]
    IN  (req.weight_cost * total_money) + (req.weight_time * total_time * PriceScale)

\* lpSum(obj_terms) at an assignment; forced-to-zero arcs have no term
Objective(req, hs, cities, cost, time, xv) ==
    SumOver({p \in FreeArcs(Len(cities), cost) : xv[p] = 1},
            [p \in Arcs(Len(cities)) |-> ArcTerm(req, hs, cities, cost, time, p)])

\* lpSum([x[i, k] for i in range(n) if i != k]) and lpSum([x[k, j] for j in range(n) if k != j])
Incoming(n, xv, k) == Cardinality({i \in Idx(n) : i # k /\ xv[<<i, k>>] = 1})
Outgoing(n, xv, k) == Cardinality({j \in Idx(n) : j # k /\ xv[<<k, j>>] = 1})

\* 1. Start is restricted to origin_cities; exactly one start
StartOk(req, cities, sv) ==
    /\ \A i \in Idx(Len(cities)) : cities[i + 1] \notin req.origin_cities => sv[i] = 0
    /\ SumOver(Idx(Len(cities)), sv) = 1

\* variant: the round trip only asks for an end in origin_cities, without
\* is_start[i] == is_end[i]
EndOkAnyOrigin(req, cities, sv, ev) ==
    /\ IF req.is_round_trip
       THEN \A i \in Idx(Len(cities)) : cities[i + 1] \notin req.origin_cities => ev[i] = 0
       ELSE \A i \in Idx(Len(cities)) : cities[i + 1] \notin req.destination_cities => ev[i] = 0
    /\ SumOver(Idx(Len(cities)), ev) = 1

\* 2. End logic; exactly one end
EndOk(req, cities, sv, ev) ==
    /\ IF req.is_round_trip
       THEN /\ \A i \in Idx(Len(cities)) : cities[i + 1] \notin req.origin_cities => ev[i] = 0
            /\ \A i \in Idx(Len(cities)) : sv[i] = ev[i]
       ELSE \A i \in Idx(Len(cities)) : cities[i + 1] \notin req.destination_cities => ev[i] = 0
    /\ SumOver(Idx(Len(cities)), ev) = 1

\* variant: no inflow row
InflowOkNone(req, n, xv, sv) == TRUE

\* Visit every city exactly once
InflowOk(req, n, xv, sv) ==
    \A k \in Idx(n) :
        Incoming(n, xv, k) = (IF req.is_round_trip THEN 1 ELSE 1 - sv[k])

\* Flow conservation
FlowOk(n, xv, sv, ev) ==
    \A k \in Idx(n) : Outgoing(n, xv, k) - Incoming(n, xv, k) = sv[k] - ev[k]

\* u[i] - u[j] + n * x[i, j] <= n - 1 + (n + 2) * is_start[j]  for all i != j
MtzHolds(n, xv, sv, u) ==
    \A p \in Arcs(n) :
        u[p[1]] - u[p[2]] + (n * xv[p]) <= (n - 1) + ((n + 2) * sv[p[2]])

\* variant: the subtour-elimination rows are left out of the model
MtzOkDropped(n, xv, sv) == TRUE

\* Some u in [0, n]^n satisfies the MTZ rows.  The rows are difference
\* constraints with integer constants and the bounds are integers, so a real
\* solution exists exactly when an integer one does.
MtzOk(n, xv, sv) == \E u \in [Idx(n) -> 0 .. n] : MtzHolds(n, xv, sv, u)

\* the 0/1 vector of a set of arcs
ArcVector(n, chosen) == [p \in Arcs(n) |-> IF p \in chosen THEN 1 ELSE 0]

\* every assignment (x, is_start, is_end) for which the model is feasible
FeasibleSet(req, cities, cost) ==
    LET n == Len(cities)
        starts == {sv \in [Idx(n) -> {0, 1}] : StartOk(req, cities, sv)}
        ends(sv) == {ev \in [Idx(n) -> {0, 1}] : EndOk(req, cities, sv, ev)}
        xs(sv, ev) == {xv \in {ArcVector(n, c) : c \in SUBSET FreeArcs(n, cost)} :
                          /\ InflowOk(req, n, xv, sv)
                          /\ FlowOk(n, xv, sv, ev)
                          /\ MtzOk(n, xv, sv)}
    IN  UNION {UNION {{[x |-> xv, is_start |-> sv, is_end |-> ev] : xv \in xs(sv, ev)} :
                         ev \in ends(sv)} : sv \in starts}

\* the minimisers of the objective over the feasible set
OptimalSet(req, hs, cities, cost, time) ==
    LET F == FeasibleSet(req, cities, cost)
        obj(a) == Objective(req, hs, cities, cost, time, a.x)
    IN  {a \in F : \A b \in F : obj(a) <= obj(b)}

---------------------------------------------------------------------------
(* app/services/solver_service.py : solve_itinerary as a state machine *)

\* lines 16-55: the universe in the arbitrary order of list(set(...)), then the matrices
Build ==
    /\ pc = "start"
    /\ \E cities \in Perms(Universe(request)) :
          LET mats == BuildMatrices(request, cities, flights, Len(flights))
          IN  /\ all_cities' = cities
              /\ cost_matrix' = mats.cost
              /\ time_matrix' = mats.time
              /\ score_matrix' = mats.score
              /\ flight_data' = mats.fdata
    /\ pc' = "built"
    /\ UNCHANGED gaVars
    /\ UNCHANGED <<request, flights, hotels, status, x, is_start, is_end, current,
                   visited, itinerary, total_cost_val, total_duration_val, result>>

\* the values CBC leaves in the variables when the status is not Optimal are never read
ZeroAssignment(n) ==
    [x |-> [p \in Arcs(n) |-> 0], is_start |-> [i \in Idx(n) |-> 0], is_end |-> [i \in Idx(n) |-> 0]]

\* lines 57-160: prob.solve(PULP_CBC_CMD(msg=0)); status = LpStatus[prob.status]
\* The solve is exact: Optimal with some minimiser when the model is feasible,
\* Infeasible when it is not (all variables are bounded, so never Unbounded).
Solve ==
    /\ pc = "built"
    /\ LET opt == OptimalSet(request, hotels, all_cities, cost_matrix, time_matrix)
       IN  IF opt = {}
           THEN /\ status' = "Infeasible"
                /\ x' = ZeroAssignment(Len(all_cities)).x
                /\ is_start' = ZeroAssignment(Len(all_cities)).is_start
                /\ is_end' = ZeroAssignment(Len(all_cities)).is_end
           ELSE /\ status' = "Optimal"
                /\ \E a \in opt : x' = a.x /\ is_start' = a.is_start /\ is_end' = a.is_end
    /\ itinerary' = <<>>
    /\ total_cost_val' = 0
    /\ total_duration_val' = 0
    /\ pc' = "solved"
    /\ UNCHANGED gaVars
    /\ UNCHANGED <<request, flights, hotels, all_cities, cost_matrix, time_matrix,
                   score_matrix, flight_data, current, visited, result>>

\* "for i in range(n): if value(is_start[i]) == 1: start_node = i; break"
StartNode(n, sv) ==
    IF \E i \in Idx(n) : sv[i] = 1
    THEN CHOOSE i \in Idx(n) : sv[i] = 1 /\ \A k \in Idx(n) : sv[k] = 1 => i <= k
    ELSE -1

\* "for j in range(n): if current != j and value(x[current, j]) == 1: next_hop = j; break"
NextHop(n, xv, cur) ==
    IF \E j \in Idx(n) : cur # j /\ xv[<<cur, j>>] = 1
    THEN CHOOSE j \in Idx(n) :
            /\ cur # j /\ xv[<<cur, j>>] = 1
            /\ \A k \in Idx(n) : (cur # k /\ xv[<<cur, k>>] = 1) => j <= k
    ELSE -1

\* lines 162-171: the status test and the choice of the start node
BeginWalk ==
    /\ pc = "solved"
    /\ IF status = "Optimal" /\ StartNode(Len(all_cities), is_start) # -1
       THEN /\ current' = StartNode(Len(all_cities), is_start)
            /\ visited' = {StartNode(Len(all_cities), is_start)}
            /\ pc' = "walk"
       ELSE /\ UNCHANGED <<current, visited>>
            /\ pc' = "return"
    /\ UNCHANGED gaVars
    /\ UNCHANGED <<request, flights, hotels, all_cities, cost_matrix, time_matrix,
                   score_matrix, flight_data, status, x, is_start, is_end, itinerary,
                   total_cost_val, total_duration_val, result>>

\* the ItineraryLeg appended for the hop current -> next_hop (lines 182-207);
\* price = float(cost_matrix[current, next_hop]) is a whole number of units
Leg(cities, cost, time, fdata, cur, nxt) ==
    [origin      |-> cities[cur + 1],
     destination |-> cities[nxt + 1],
     flight      |-> fdata[<<cur, nxt>>],
     price       |-> cost[<<cur, nxt>>] * PriceScale,
     duration    |-> time[<<cur, nxt>>]]

\* variant: the total is assigned, not accumulated
AddPriceAssign(total, leg) == leg.price

\* total_cost_val += price; total_duration_val += duration
AddPrice(total, leg) == total + leg.price
AddDuration(total, leg) == total + leg.duration

\* lines 174-220: one iteration of "while True"
WalkStep ==
    /\ pc = "walk"
    /\ LET next_hop == NextHop(Len(all_cities), x, current)
       IN  IF next_hop # -1
           THEN LET leg == Leg(all_cities, cost_matrix, time_matrix, flight_data, current, next_hop)
                IN  /\ itinerary' = Append(itinerary, leg)
                    /\ total_cost_val' = AddPrice(total_cost_val, leg)
                    /\ total_duration_val' = AddDuration(total_duration_val, leg)
                    /\ current' = next_hop
                    /\ IF next_hop \in visited
                       THEN /\ visited' = visited
                            /\ pc' = "return"
                       ELSE /\ visited' = visited \cup {next_hop}
                            /\ pc' = IF is_end[next_hop] = 1 THEN "return" ELSE "walk"
           ELSE /\ pc' = "return"
                /\ UNCHANGED <<itinerary, total_cost_val, total_duration_val, current, visited>>
    /\ UNCHANGED gaVars
    /\ UNCHANGED <<request, flights, hotels, all_cities, cost_matrix, time_matrix,
                   score_matrix, flight_data, status, x, is_start, is_end, result>>

\* lines 233-238
\* an Optional[str] message is kept as the sequence of its pieces; None is empty
NoMessage == <<>>

SolverResult(st, legs, cost, duration, warning) ==
    <<[status |-> st, itinerary |-> legs, total_cost |-> cost,
       total_duration |-> duration, warning_message |-> warning]>>

Return ==
    /\ pc = "return"
    /\ result' = SolverResult(status, itinerary, total_cost_val, total_duration_val, NoMessage)
    /\ pc' = "done"
    /\ UNCHANGED gaVars
    /\ UNCHANGED <<request, flights, hotels, all_cities, cost_matrix, time_matrix,
                   score_matrix, flight_data, status, x, is_start, is_end, current,
                   visited, itinerary, total_cost_val, total_duration_val>>

---------------------------------------------------------------------------
(* Inputs: bounded families of requests and offer lists *)

Request(o, d, m, rt, wc, wt, pax) ==
    [origin_cities |-> o, destination_cities |-> d, mandatory_cities |-> m,
     is_round_trip |-> rt, weight_cost |-> wc, weight_time |-> wt,
     pax_adults |-> pax, pax_children |-> 0,
     stay_days_per_city |-> 1, daily_cost_per_person |-> 0]

Flight(o, d, p, t) == [origin |-> o, destination |-> d, price |-> p, duration_minutes |-> t]

Hotel(c, p) == [city |-> c, price_per_night |-> p]

\* the six ordered pairs of distinct cities, in a fixed listing order
CityPairs ==
    << <<"SP", "RIO">>, <<"SP", "BH">>, <<"RIO", "SP">>,
       <<"RIO", "BH">>, <<"BH", "SP">>, <<"BH", "RIO">> >>

\* prices 1.0, 3.5 and 5.0
PriceVals == {PriceScale, (3 * PriceScale) + 1, 5 * PriceScale}

DurationVals == {60, 90}

\* Family 1: one or two origins, zero to two destinations (disjoint from the
\* origins or not), zero or one mandatory city; at most one offer per ordered pair
TopologyOffer(k) == Flight(CityPairs[k][1], CityPairs[k][2], (k * PriceScale) + 1, 30 * (7 - k))

TopologyFlights(E) == SelectSeq([k \in 1 .. 6 |-> TopologyOffer(k)],
                                LAMBDA f : <<f.origin, f.destination>> \in E)

InitTopology ==
    \E o \in {{"SP"}, {"SP", "RIO"}},
       d \in {{}, {"RIO"}, {"BH"}, {"SP"}, {"RIO", "BH"}, {"SP", "RIO"}},
       m \in {{}, {"BH"}}, rt \in BOOLEAN, E \in SUBSET {CityPairs[k] : k \in 1 .. 6} :
        /\ request = Request(o, d, m, rt, 1, 1, 1)
        /\ flights = TopologyFlights(E)
        /\ hotels = <<>>

\* Family 2 (Scenario A): SP -> RIO via BH, one offer per ordered pair, any prices
InitScenarioA ==
    \E pr \in [1 .. 6 -> PriceVals], hs \in {<<>>, <<Hotel("BH", 100 * PriceScale)>>} :
        /\ request = Request({"SP"}, {"RIO"}, {"BH"}, FALSE, 1, 0, 1)
        /\ flights = [k \in 1 .. 6 |-> Flight(CityPairs[k][1], CityPairs[k][2], pr[k], 60)]
        /\ hotels = hs

\* Family 3: competing offers for the same pairs, in every order
OfferPool ==
    {Flight("SP", "RIO", p, t) : p \in PriceVals, t \in DurationVals}
        \cup {Flight("RIO", "SP", PriceScale, 60)}

SeqsUpTo(S, n) == UNION {[1 .. k -> S] : k \in 0 .. n}

InitCompeting ==
    \E fl \in SeqsUpTo(OfferPool, MaxFlights),
       w \in {<<1, 0>>, <<0, 1>>, <<1, 40>>}, pax \in {0, 2} :
        /\ request = Request({"SP"}, {"RIO"}, {}, FALSE, w[1], w[2], pax)
        /\ flights = fl
        /\ hotels = <<>>

InitRest ==
    /\ all_cities = <<>>
    /\ cost_matrix = <<>>
    /\ time_matrix = <<>>
    /\ score_matrix = <<>>
    /\ flight_data = <<>>
    /\ status = ""
    /\ x = <<>>
    /\ is_start = <<>>
    /\ is_end = <<>>
    /\ current = -1
    /\ visited = {}
    /\ itinerary = <<>>
    /\ total_cost_val = 0
    /\ total_duration_val = 0
    /\ result = <<>>
    /\ context = <<>>
    /\ pop = <<>>
    /\ gen = 0
    /\ best_individual = <<>>
    /\ calls = <<>>
    /\ rng = 0
    /\ tape = <<>>

InitLocals ==
    /\ pc = "start"
    /\ InitRest


Next == Build \/ Solve \/ BeginWalk \/ WalkStep \/ Return

\* the MILP solve over the requests and offer topologies of family 1
Init ==
    /\ InitTopology
    /\ InitLocals

Spec == Init /\ [][Next]_vars

\* the MILP solve on Scenario A
InitA ==
    /\ InitScenarioA
    /\ InitLocals

SpecScenarioA == InitA /\ [][Next]_vars

\* the MILP solve over competing offers
InitOffers ==
    /\ InitCompeting
    /\ InitLocals

SpecOffers == InitOffers /\ [][Next]_vars

---------------------------------------------------------------------------
(* The MILP solve with the outcomes of the underlying solver that are not a
   proved optimum or a proved infeasibility *)

\* line 155 returns with prob.status "Not Solved" or "Undefined" (the solver
\* stopped without an answer); line 157 copies LpStatus[prob.status]
SolveStopped ==
    /\ pc = "built"
    /\ status' \in {"Not Solved", "Undefined"}
    /\ x' = ZeroAssignment(Len(all_cities)).x
    /\ is_start' = ZeroAssignment(Len(all_cities)).is_start
    /\ is_end' = ZeroAssignment(Len(all_cities)).is_end
    /\ itinerary' = <<>>
    /\ total_cost_val' = 0
    /\ total_duration_val' = 0
    /\ pc' = "solved"
    /\ UNCHANGED gaVars
    /\ UNCHANGED <<request, flights, hotels, all_cities, cost_matrix, time_matrix,
                   score_matrix, flight_data, current, visited, result>>

\* line 155 raises (PulpSolverError: the CBC executable cannot be run); the
\* handler of lines 222-231 returns status=f"Error: {str(e)}"
SolveRaises ==
    /\ pc = "built"
    /\ result' = SolverResult("Error: Pulp: Error while executing cbc", <<>>, 0, 0,
                              <<"Solver Crashed: Pulp: Error while executing cbc">>)
    /\ pc' = "done"
    /\ UNCHANGED gaVars
    /\ UNCHANGED <<request, flights, hotels, all_cities, cost_matrix, time_matrix,
                   score_matrix, flight_data, status, x, is_start, is_end, current,
                   visited, itinerary, total_cost_val, total_duration_val>>

InitEnv ==
    /\ InitCompeting
    /\ InitLocals

NextEnv == Build \/ Solve \/ SolveStopped \/ SolveRaises \/ BeginWalk \/ WalkStep \/ Return

SpecEnv == InitEnv /\ [][NextEnv]_vars

\* Family 7: requests over three and four cities, offers on every ordered
\* pair or on two 2-cycles joined by three arcs
FourCities == <<"SP", "RIO", "BH", "POA">>

FourPairs ==
    SelectSeq([k \in 1 .. 16 |-> <<FourCities[((k - 1) \div 4) + 1], FourCities[((k - 1) % 4) + 1]>>],
              LAMBDA p : p[1] # p[2])

FourOffers(E) ==
    SelectSeq([k \in 1 .. Len(FourPairs) |->
                  Flight(FourPairs[k][1], FourPairs[k][2], (k * PriceScale) + 1, 30 * (13 - k))],
              LAMBDA f : <<f.origin, f.destination>> \in E)

TwoCycles ==
    {<<"SP", "RIO">>, <<"RIO", "SP">>, <<"BH", "POA">>, <<"POA", "BH">>,
     <<"RIO", "BH">>, <<"POA", "SP">>, <<"SP", "BH">>}

InitFourInputs ==
    \E rq \in {Request({"SP"}, {"RIO"}, {"BH", "POA"}, FALSE, 1, 1, 1),
               Request({"SP"}, {"RIO"}, {"BH", "POA"}, TRUE, 1, 1, 1),
               Request({"SP", "RIO"}, {"SP", "RIO"}, {"BH", "POA"}, FALSE, 1, 1, 1),
               Request({"SP", "RIO"}, {"BH"}, {"POA"}, TRUE, 1, 1, 1),
               Request({"SP", "RIO"}, {"SP", "RIO"}, {"BH"}, FALSE, 1, 1, 1)},
       E \in {{FourPairs[k] : k \in 1 .. Len(FourPairs)}, TwoCycles} :
        /\ request = rq
        /\ flights = FourOffers(E)
        /\ hotels = <<>>

InitFour ==
    /\ InitFourInputs
    /\ InitLocals

SpecFour == InitFour /\ [][Next]_vars

\* Family 11: two start candidates and one destination over three cities, so
\* that two tours exist; one or two competing offers on each of three pairs,
\* in either order, and one offer on the fourth
RetainPairs == << <<"SP", "BH">>, <<"BH", "RIO">>, <<"BH", "SP">>, <<"SP", "RIO">> >>

\* the cheap slow offer and the dear fast offer of the k-th pair
CheapOffer(k) == Flight(RetainPairs[k][1], RetainPairs[k][2], k * PriceScale, 90)
FastOffer(k) == Flight(RetainPairs[k][1], RetainPairs[k][2], ((k + 2) * PriceScale) + 1, 60)

PairLists(k) ==
    {<<CheapOffer(k)>>, <<CheapOffer(k), FastOffer(k)>>, <<FastOffer(k), CheapOffer(k)>>}

InitRetainInputs ==
    \E l1 \in PairLists(1), l2 \in PairLists(2), l3 \in PairLists(3),
       l4 \in {<<CheapOffer(4)>>},
       w \in {<<1, 0>>, <<0, 1>>, <<1, 40>>},
       hs \in {<<>>, <<Hotel("BH", 100 * PriceScale)>>} :
        /\ request = Request({"SP", "BH"}, {"RIO"}, {}, FALSE, w[1], w[2], 2)
        /\ flights = l1 \o l2 \o l3 \o l4
        /\ hotels = hs

InitRetain ==
    /\ InitRetainInputs
    /\ InitLocals

SpecRetain == InitRetain /\ [][Next]_vars

---------------------------------------------------------------------------
(* solver_service/models/solver.py : the NSGA-II solver, pure parts *)

PopulationSize == 2      \* POPULATION_SIZE (100 in the program)
Generations == 1         \* GENERATIONS (50 in the program)

\* the penalty fitness (1e10, 1e10); it stands above every real total
Penalty == 1000000000

None == -1

\* sorted(...) on city names
AlphaOrder == <<"BH", "RIO", "SP">>

SortedCities(S) == SelectSeq(AlphaOrder, LAMBDA c : c \in S)

\* req_cities: the request's cities and every endpoint of an offer
GaUniverse(req, fl) ==
    Universe(req) \cup {fl[k].origin : k \in 1 .. Len(fl)}
                  \cup {fl[k].destination : k \in 1 .. Len(fl)}

\* np.full((n, n), M, dtype=float), {}
GaEmptyMatrices(n) ==
    [cost  |-> [p \in Idx(n) \X Idx(n) |-> M * PriceScale],
     time  |-> [p \in Idx(n) \X Idx(n) |-> M],
     fdata |-> [p \in Idx(n) \X Idx(n) |-> <<>>]]

\* one iteration of "for f in flights" (lines 298-304); the float matrix
\* holds the price itself, here in 1/PriceScale units
GaMatrixStep(cities, mats, f) ==
    IF InCityMap(cities, f.origin) /\ InCityMap(cities, f.destination)
    THEN LET i == CityIndex(cities, f.origin)
             j == CityIndex(cities, f.destination)
         IN  IF f.price < mats.cost[<<i, j>>]
             THEN [cost  |-> [mats.cost  EXCEPT ![<<i, j>>] = f.price],
                   time  |-> [mats.time  EXCEPT ![<<i, j>>] = f.duration_minutes],
                   fdata |-> [mats.fdata EXCEPT ![<<i, j>>] = <<f>>]]
             ELSE mats
    ELSE mats

RECURSIVE GaBuildMatrices(_, _, _)
GaBuildMatrices(cities, fl, k) ==
    IF k = 0 THEN GaEmptyMatrices(Len(cities))
    ELSE GaMatrixStep(cities, GaBuildMatrices(cities, fl, k - 1), fl[k])

\* hotel_costs (lines 307-310)
HotelCosts(cities, hs) ==
    [c \in {cities[k] : k \in 1 .. Len(cities)} |-> HotelCost(hs, Len(hs), c)]

\* the fields of _context set by lines 313-321
SolverContext(req, cities, mats, hs) ==
    [all_cities |-> cities, cost_matrix |-> mats.cost, time_matrix |-> mats.time,
     flight_data |-> mats.fdata, hotel_costs |-> HotelCosts(cities, hs),
     request |-> req, n |-> Len(cities)]

\* _is_valid_tour
IsValidTour(ctx, individual) ==
    IF Len(individual) < 2 \/ Len(individual) # ctx.n THEN FALSE
    ELSE LET start_city == ctx.all_cities[individual[1] + 1]
             end_city == ctx.all_cities[individual[Len(individual)] + 1]
             visited_set == {individual[k] : k \in 1 .. Len(individual)}
             required_cities == ctx.request.mandatory_cities \cup ctx.request.destination_cities
             required_indices == {CityIndex(ctx.all_cities, c) :
                                     c \in {r \in required_cities : InCityMap(ctx.all_cities, r)}}
         IN  /\ start_city \in ctx.request.origin_cities
             /\ IF ctx.request.is_round_trip
                THEN end_city \in ctx.request.origin_cities
                ELSE end_city \in ctx.request.destination_cities
             /\ required_indices \subseteq visited_set

\* the loop of lines 110-122 over the first k hops: <<ok, total_cost, total_duration>>
RECURSIVE FlightTotals(_, _, _)
FlightTotals(ctx, individual, k) ==
    IF k = 0 THEN <<TRUE, 0, 0>>
    ELSE LET before == FlightTotals(ctx, individual, k - 1)
             i == individual[k]
             j == individual[k + 1]
             flight_cost == ctx.cost_matrix[<<i, j>>]
         IN  IF ~before[1] \/ flight_cost >= M * PriceScale
             THEN <<FALSE, 0, 0>>
             ELSE <<TRUE,
                    before[2] + (flight_cost * TotalPax(ctx.request)),
                    before[3] + ctx.time_matrix[<<i, j>>]>>

\* the loop of lines 125-129: hotel cost of every visited city but the last
RECURSIVE HotelTotal(_, _, _, _)
HotelTotal(hotel_costs, cities, req, tour) ==
    IF Len(tour) <= 1 THEN 0
    ELSE (hotel_costs[cities[tour[1] + 1]] * req.stay_days_per_city)
            + HotelTotal(hotel_costs, cities, req, Tail(tour))

\* _evaluate_tour
EvaluateTour(ctx, individual) ==
    IF ~IsValidTour(ctx, individual) THEN <<Penalty, Penalty>>
    ELSE LET ft == FlightTotals(ctx, individual, Len(individual) - 1)
         IN  IF ~ft[1] THEN <<Penalty, Penalty>>
             ELSE <<ft[2] + HotelTotal(ctx.hotel_costs, ctx.all_cities, ctx.request, individual),
                    ft[3]>>

\* the key of min(...) in _create_greedy_individual, with inf as M * PriceScale
GreedyKey(ctx, cur, c) ==
    IF ctx.cost_matrix[<<cur, c>>] < M * PriceScale
    THEN ctx.cost_matrix[<<cur, c>>] ELSE M * PriceScale

RECURSIVE SortedSeq(_)
SortedSeq(S) ==
    IF S = {} THEN <<>>
    ELSE LET m == CHOOSE m \in S : \A e \in S : m <= e IN <<m>> \o SortedSeq(S \ {m})

\* the while loop of _create_greedy_individual; min over a set of small
\* integers meets them in increasing order, so ties go to the lowest index
RECURSIVE GreedyExtend(_, _, _)
GreedyExtend(ctx, tour, unvisited) ==
    IF unvisited = {} THEN tour
    ELSE LET cur == tour[Len(tour)]
             nearest == CHOOSE c \in unvisited :
                           \A e \in unvisited :
                               \/ GreedyKey(ctx, cur, c) < GreedyKey(ctx, cur, e)
                               \/ (GreedyKey(ctx, cur, c) = GreedyKey(ctx, cur, e) /\ c <= e)
         IN  IF ctx.cost_matrix[<<cur, nearest>>] >= M * PriceScale
             THEN tour \o SortedSeq(unvisited)
             ELSE GreedyExtend(ctx, Append(tour, nearest), unvisited \ {nearest})

\* _create_greedy_individual
CreateGreedyIndividual(ctx) ==
    LET origins == {i \in Idx(ctx.n) : ctx.all_cities[i + 1] \in ctx.request.origin_cities}
        start_idx == IF origins = {} THEN 0
                     ELSE CHOOSE i \in origins : \A k \in origins : i <= k
    IN  GreedyExtend(ctx, <<start_idx>>, Idx(ctx.n) \ {start_idx})

\* the permutations of range(n), as sequences of city indices
IndexPermutations(n) == {t \in [1 .. n -> Idx(n)] : \A a, b \in 1 .. n : a # b => t[a] # t[b]}

\* _create_individual: any valid shuffle, or the greedy tour when all 100
\* shuffles were invalid (possible as soon as one permutation is invalid)
CreateIndividual(ctx) ==
    {t \in IndexPermutations(ctx.n) : IsValidTour(ctx, t)}
        \cup (IF \E t \in IndexPermutations(ctx.n) : ~IsValidTour(ctx, t)
              THEN {CreateGreedyIndividual(ctx)} ELSE {})

\* variant: position i takes the city of position j, which keeps it
SwapCopy(ind, i, j) == [ind EXCEPT ![i] = ind[j]]

\* individual[i], individual[j] = individual[j], individual[i]
Swap(ind, i, j) == [ind EXCEPT ![i] = ind[j], ![j] = ind[i]]

\* _mutate_swap: the individuals the loop can have produced after positions 1..k
RECURSIVE MutateSwap(_, _)
MutateSwap(ind, k) ==
    IF k = 0 THEN {ind}
    ELSE LET before == MutateSwap(ind, k - 1)
         IN  before \cup {Swap(b, k, j) : b \in before, j \in 1 .. Len(ind)}

\* individual.pop(i) and list.insert(j, v), positions from 1
RemoveAt(ind, i) == SubSeq(ind, 1, i - 1) \o SubSeq(ind, i + 1, Len(ind))

InsertAt(ind, j, v) == SubSeq(ind, 1, j - 1) \o <<v>> \o SubSeq(ind, j, Len(ind))

\* _mutate_insert: the individual untouched, or one city moved to position j
MutateInsert(ind) ==
    IF Len(ind) > 2
    THEN {ind} \cup {InsertAt(RemoveAt(ind, i), j, ind[i]) : i \in 1 .. Len(ind), j \in 1 .. Len(ind)}
    ELSE {ind}

\* the fill loop of _crossover_ox from the k-th city of order on
RECURSIVE OxFill(_, _, _, _)
OxFill(child, order, k, ptr) ==
    IF k > Len(order) THEN child
    ELSE IF \E q \in 1 .. Len(child) : child[q] = order[k]
         THEN OxFill(child, order, k + 1, ptr)
         ELSE LET at == IF ptr >= Len(child) THEN 0 ELSE ptr
              IN  OxFill([child EXCEPT ![at + 1] = order[k]], order, k + 1, at + 1)

\* one child of _crossover_ox: the slice [a, b) of keep, the rest in give's order
OxChild(keep, give, a, b) ==
    LET size == Len(keep)
        child == [q \in 1 .. size |-> IF a < q /\ q <= b THEN keep[q] ELSE None]
    IN  OxFill(child, SubSeq(give, b + 1, size) \o SubSeq(give, 1, b), 1, b)

\* _crossover_ox: the pairs of children, over the cut points a <= b
CrossoverOx(parent1, parent2) ==
    {<<OxChild(parent1, parent2, ab[1], ab[2]), OxChild(parent2, parent1, ab[1], ab[2])>> :
        ab \in {cd \in Idx(Len(parent1)) \X Idx(Len(parent1)) : cd[1] <= cd[2]}}

---------------------------------------------------------------------------
(* solver_service/models/solver.py : selection and variation (DEAP) *)

\* an individual whose fitness was deleted
Unevaluated(ind) == [ind |-> ind, fit |-> <<>>]

\* base.Fitness.dominates with weights (-1.0, -1.0): f dominates g
Dominates(f, g) ==
    /\ f[1] <= g[1] /\ f[2] <= g[2]
    /\ (f[1] < g[1] \/ f[2] < g[2])

\* the members of S no member of S dominates
NonDominated(P, S) == {i \in S : ~\E j \in S : Dominates(P[j].fit, P[i].fit)}

\* sortNondominated: the number of the front that holds individual i
RECURSIVE FrontOf(_, _, _)
FrontOf(P, S, i) ==
    IF i \in NonDominated(P, S) THEN 1
    ELSE 1 + FrontOf(P, S \ NonDominated(P, S), i)

\* tools.selNSGA2(population, len(population)): the whole population, front
\* after front; inside a front the order (dictionary order, crowding distance
\* in the last front) is left open
SelNSGA2(P) ==
    {[k \in 1 .. Len(P) |-> P[o[k]]] :
        o \in {q \in Perms(1 .. Len(P)) :
                  \A a, b \in 1 .. Len(P) :
                      a < b => FrontOf(P, 1 .. Len(P), q[a]) <= FrontOf(P, 1 .. Len(P), q[b])}}

\* varAnd, crossover part: the pairs (i-1, i), (i+1, i+2), ... each mated or not
RECURSIVE MateAll(_, _)
MateAll(off, i) ==
    IF i > Len(off) THEN {off}
    ELSE LET rest == MateAll(off, i + 2)
         IN  rest \cup
             {[r EXCEPT ![i - 1] = Unevaluated(ch[1]), ![i] = Unevaluated(ch[2])] :
                 r \in rest, ch \in CrossoverOx(off[i - 1].ind, off[i].ind)}

\* varAnd, mutation part: the individuals 1..i each mutated or not
RECURSIVE MutateAll(_, _)
MutateAll(off, i) ==
    IF i = 0 THEN {off}
    ELSE LET before == MutateAll(off, i - 1)
         IN  before \cup
             UNION {{[b EXCEPT ![i] = Unevaluated(m)] : m \in MutateSwap(b[i].ind, Len(b[i].ind))} :
                       b \in before}

\* algorithms.varAnd
VarAnd(off) == UNION {MutateAll(o, Len(o)) : o \in MateAll(off, 2)}

\* "invalid_ind = [...]; fitnesses = toolbox.map(toolbox.evaluate, invalid_ind)"
EvaluateInvalid(ctx, off) ==
    [k \in 1 .. Len(off) |->
        IF off[k].fit = <<>>
        THEN [ind |-> off[k].ind, fit |-> EvaluateTour(ctx, off[k].ind)]
        ELSE off[k]]

\* sortNondominated(pop, len(pop), first_front_only=True)[0], as positions of pop
ParetoFront(P) == NonDominated(P, 1 .. Len(P))

\* variant: the first individual of the front is taken
BestOfFrontFirst(req, P) ==
    CHOOSE i \in ParetoFront(P) : \A j \in ParetoFront(P) : i <= j

\* lines 394-397: min over the front meets equal keys in population order
BestOfFront(req, P) ==
    LET front == ParetoFront(P)
        key(i) == IF req.weight_cost > req.weight_time THEN P[i].fit[1] ELSE P[i].fit[2]
    IN  CHOOSE i \in front :
            \A j \in front : key(i) < key(j) \/ (key(i) = key(j) /\ i <= j)

---------------------------------------------------------------------------
(* solver_service/models/solver.py : solve_itinerary as a state machine *)

SolveResponse(st, legs, cost, duration, warning) ==
    <<[status |-> st, itinerary |-> legs, total_cost |-> cost,
       total_duration |-> duration, warning_message |-> warning]>>

milpLocals == <<score_matrix, x, is_start, is_end, current, visited>>

\* lines 265-321: cities, matrices, hotel costs, _context
GaSetup ==
    /\ pc = "start"
    /\ LET cities == SortedCities(GaUniverse(request, flights))
           mats == GaBuildMatrices(cities, flights, Len(flights))
       IN  IF Len(cities) < 2
           THEN /\ result' = SolveResponse("Infeasible", <<>>, 0, 0,
                                           <<"Insufficient cities for itinerary">>)
                /\ pc' = "done"
                /\ UNCHANGED <<all_cities, cost_matrix, time_matrix, flight_data, context>>
           ELSE /\ all_cities' = cities
                /\ cost_matrix' = mats.cost
                /\ time_matrix' = mats.time
                /\ flight_data' = mats.fdata
                /\ context' = SolverContext(request, cities, mats, hotels)
                /\ pc' = "populate"
                /\ UNCHANGED result
    /\ UNCHANGED <<request, flights, hotels, status, itinerary, total_cost_val,
                   total_duration_val, pop, gen, best_individual, milpLocals, callVars>>

\* lines 348-353: toolbox.population(n=POPULATION_SIZE) and its evaluation
GaPopulate ==
    /\ pc = "populate"
    /\ \E inds \in [1 .. PopulationSize -> CreateIndividual(context)] :
          pop' = EvaluateInvalid(context, [k \in 1 .. PopulationSize |-> Unevaluated(inds[k])])
    /\ gen' = 0
    /\ pc' = "evolve"
    /\ UNCHANGED <<request, flights, hotels, all_cities, cost_matrix, time_matrix,
                   flight_data, status, itinerary, total_cost_val, total_duration_val,
                   result, context, best_individual, milpLocals, callVars>>

\* lines 367-374: one generation of algorithms.eaSimple
GaGeneration ==
    /\ pc = "evolve"
    /\ gen < Generations
    /\ \E offspring \in SelNSGA2(pop) :
          \E varied \in VarAnd(offspring) : pop' = EvaluateInvalid(context, varied)
    /\ gen' = gen + 1
    /\ UNCHANGED <<request, flights, hotels, pc, all_cities, cost_matrix, time_matrix,
                   flight_data, status, itinerary, total_cost_val, total_duration_val,
                   result, context, best_individual, milpLocals, callVars>>

\* lines 376-397: the first front and the choice of best_individual
GaSelectBest ==
    /\ pc = "evolve"
    /\ gen = Generations
    /\ IF ParetoFront(pop) = {}
       THEN /\ result' = SolveResponse("Infeasible", <<>>, 0, 0, <<"No feasible solution found">>)
            /\ pc' = "done"
            /\ UNCHANGED best_individual
       ELSE /\ best_individual' = pop[BestOfFront(request, pop)]
            /\ pc' = "rebuild"
            /\ UNCHANGED result
    /\ UNCHANGED <<request, flights, hotels, all_cities, cost_matrix, time_matrix,
                   flight_data, status, itinerary, total_cost_val, total_duration_val,
                   context, pop, gen, milpLocals, callVars>>

\* the ItineraryLegSchema of lines 419-426
GaLeg(cities, cost, time, fdata, i, j) ==
    [origin      |-> cities[i + 1],
     destination |-> cities[j + 1],
     flight      |-> fdata[<<i, j>>],
     price       |-> cost[<<i, j>>],
     duration    |-> time[<<i, j>>]]

\* lines 410-431 over the first k hops of the tour: legs and totals
RECURSIVE GaLegs(_, _, _, _, _, _, _)
GaLegs(req, cities, cost, time, fdata, tour, k) ==
    IF k = 0 THEN [legs |-> <<>>, total_cost |-> 0, total_duration |-> 0]
    ELSE LET before == GaLegs(req, cities, cost, time, fdata, tour, k - 1)
             i == tour[k]
             j == tour[k + 1]
             price == cost[<<i, j>>]
         IN  IF price < M * PriceScale
             THEN [legs |-> Append(before.legs, GaLeg(cities, cost, time, fdata, i, j)),
                   total_cost |-> before.total_cost + (price * TotalPax(req)),
                   total_duration |-> before.total_duration + time[<<i, j>>]]
             ELSE before

\* lines 399-449: itinerary, totals, hotel costs, the Optimal response
GaReconstruct ==
    /\ pc = "rebuild"
    /\ LET tour == best_individual.ind
           walk == GaLegs(request, all_cities, cost_matrix, time_matrix, flight_data,
                          tour, Len(tour) - 1)
           hotel == HotelTotal(HotelCosts(all_cities, hotels), all_cities, request, tour)
       IN  /\ itinerary' = walk.legs
           /\ total_cost_val' = walk.total_cost + hotel
           /\ total_duration_val' = walk.total_duration
           /\ status' = "Optimal"
           /\ result' = SolveResponse("Optimal", walk.legs, walk.total_cost + hotel,
                                      walk.total_duration, NoMessage)
    /\ pc' = "done"
    /\ UNCHANGED <<request, flights, hotels, all_cities, cost_matrix, time_matrix,
                   flight_data, context, pop, gen, best_individual, milpLocals, callVars>>

\* Family 4: requests and offer sets for the NSGA-II solver
GaEdgeSets ==
    { {},
      {<<"SP", "RIO">>, <<"RIO", "SP">>},
      {<<"SP", "BH">>, <<"BH", "RIO">>},
      {<<"SP", "RIO">>, <<"RIO", "BH">>, <<"BH", "SP">>},
      {CityPairs[k] : k \in 1 .. 6} }

InitGaInputs ==
    \E o \in {{"SP"}, {"SP", "RIO"}}, m \in {{}, {"BH"}}, rt \in BOOLEAN,
       w \in {<<1, 0>>, <<0, 1>>}, E \in GaEdgeSets,
       hs \in {<<>>, <<Hotel("BH", 100 * PriceScale)>>} :
        /\ request = Request(o, {"RIO"}, m, rt, w[1], w[2], 1)
        /\ flights = TopologyFlights(E)
        /\ hotels = hs

InitGA ==
    /\ InitGaInputs
    /\ InitLocals

NextGA == GaSetup \/ GaPopulate \/ GaGeneration \/ GaSelectBest \/ GaReconstruct

SpecGA == InitGA /\ [][NextGA]_vars

\* the NSGA-II solve on the competing offers of family 3
InitGaOffers ==
    /\ InitCompeting
    /\ InitLocals

SpecGaOffers == InitGaOffers /\ [][NextGA]_vars

\* Family 9: round trips with two origin candidates, where two valid tours
\* trade cost against duration; every weighting, over two and three cities
InitGaPickInputs ==
    \E w \in {<<1, 0>>, <<0, 1>>, <<1, 1>>}, m \in {{}, {"BH"}} :
        /\ request = Request({"SP", "RIO"}, {"RIO"}, m, TRUE, w[1], w[2], 1)
        /\ flights = TopologyFlights({p \in {CityPairs[k] : k \in 1 .. 6} :
                                         {p[1], p[2]} \subseteq {"SP", "RIO"} \cup m})
        /\ hotels = <<>>

InitGaPick ==
    /\ InitGaPickInputs
    /\ InitLocals

SpecGaPick == InitGaPick /\ [][NextGA]_vars

---------------------------------------------------------------------------
(* solver_service/models/solver.py : several calls of solve_itinerary in   *)
(* one process.  The module-level _context and the generator of `random`   *)
(* are shared; everything else is local to a call.                         *)

Calls == 1 .. 2

TapeLen == 4             \* period of the generator's output in the model

DrawVals == {0, 1, 2}

\* the number the generator yields in the given state
Draw(tp, state) == tp[(state % Len(tp)) + 1]

\* the d-th member of S in a fixed enumeration of S
RECURSIVE Nth(_, _)
Nth(S, d) ==
    LET e == CHOOSE e \in S : TRUE
    IN  IF d = 0 THEN e ELSE Nth(S \ {e}, d - 1)

\* the outcome, among the possible outcomes S of a randomised step, that the
\* generator's output d selects
Pick(S, d) == Nth(S, d % Cardinality(S))

\* toolbox.population(n=POPULATION_SIZE) from the generator's state on
SeededPopulation(ctx, tp, state) ==
    [k \in 1 .. PopulationSize |->
        Unevaluated(Pick(CreateIndividual(ctx), Draw(tp, state + (k - 1))))]

\* toolbox.select(population, len(population)): a function of the population
SelectOffspring(P) == CHOOSE o \in SelNSGA2(P) : TRUE

\* varAnd on the selected offspring, with the generator's output
SeededVarAnd(P, tp, state) == Pick(VarAnd(SelectOffspring(P)), Draw(tp, state))

\* the locals of a call before its first statement
NewCall(req, fl, hs) ==
    [request |-> req, flights |-> fl, hotels |-> hs, pc |-> "start",
     all_cities |-> <<>>, cost_matrix |-> <<>>, time_matrix |-> <<>>,
     flight_data |-> <<>>, pop |-> <<>>, gen |-> 0, best_individual |-> <<>>,
     result |-> <<>>, read |-> {}]

soloVars == <<request, flights, hotels, pc, all_cities, cost_matrix, time_matrix,
              flight_data, status, itinerary, total_cost_val, total_duration_val,
              result, pop, gen, best_individual, milpLocals>>

\* lines 265-321 in call r
CallSetupStep(r) ==
    /\ calls[r].pc = "start"
    /\ LET c == calls[r]
           cities == SortedCities(GaUniverse(c.request, c.flights))
           mats == GaBuildMatrices(cities, c.flights, Len(c.flights))
       IN  IF Len(cities) < 2
           THEN /\ calls' = [calls EXCEPT ![r] =
                               [c EXCEPT !.pc = "done",
                                         !.result = SolveResponse("Infeasible", <<>>, 0, 0,
                                                        <<"Insufficient cities for itinerary">>)]]
                /\ UNCHANGED context
           ELSE /\ calls' = [calls EXCEPT ![r] =
                               [c EXCEPT !.pc = "populate", !.all_cities = cities,
                                         !.cost_matrix = mats.cost,
                                         !.time_matrix = mats.time,
                                         !.flight_data = mats.fdata]]
                /\ context' = SolverContext(c.request, cities, mats, c.hotels)
    /\ UNCHANGED <<tape, soloVars>>

\* variant: the generator is not seeded again before the call
UnseededSetup(r) ==
    /\ \A q \in Calls \ {r} : calls[q].pc \in {"start", "done"}
    /\ UNCHANGED rng
    /\ CallSetupStep(r)

\* a call made right after seeding the generator, no other call running
SeededSetup(r) ==
    /\ \A q \in Calls \ {r} : calls[q].pc \in {"start", "done"}
    /\ rng' = 0
    /\ CallSetupStep(r)

\* a call made on a thread of its own
ThreadSetup(r) ==
    /\ UNCHANGED rng
    /\ CallSetupStep(r)

\* lines 348-353 in call r: _create_individual and _evaluate_tour read _context
CallPopulate(r) ==
    /\ calls[r].pc = "populate"
    /\ calls' = [calls EXCEPT ![r] =
                    [calls[r] EXCEPT
                        !.pop = EvaluateInvalid(context, SeededPopulation(context, tape, rng)),
                        !.gen = 0,
                        !.pc = "evolve",
                        !.read = calls[r].read \cup {context}]]
    /\ rng' = rng + PopulationSize
    /\ UNCHANGED <<context, tape, soloVars>>

\* lines 367-374 in call r: one generation of algorithms.eaSimple
CallGeneration(r) ==
    /\ calls[r].pc = "evolve"
    /\ calls[r].gen < Generations
    /\ calls' = [calls EXCEPT ![r] =
                    [calls[r] EXCEPT
                        !.pop = EvaluateInvalid(context, SeededVarAnd(calls[r].pop, tape, rng)),
                        !.gen = calls[r].gen + 1,
                        !.read = calls[r].read \cup {context}]]
    /\ rng' = rng + 1
    /\ UNCHANGED <<context, tape, soloVars>>

\* lines 376-397 in call r
CallSelectBest(r) ==
    /\ calls[r].pc = "evolve"
    /\ calls[r].gen = Generations
    /\ LET c == calls[r]
       IN  IF ParetoFront(c.pop) = {}
           THEN calls' = [calls EXCEPT ![r] =
                             [c EXCEPT !.pc = "done",
                                       !.result = SolveResponse("Infeasible", <<>>, 0, 0,
                                                                <<"No feasible solution found">>)]]
           ELSE calls' = [calls EXCEPT ![r] =
                             [c EXCEPT !.pc = "rebuild",
                                       !.best_individual = c.pop[BestOfFront(c.request, c.pop)]]]
    /\ UNCHANGED <<context, rng, tape, soloVars>>

\* lines 399-459 in call r; an index of the tour beyond the call's own
\* matrices raises IndexError at line 415, which line 451 catches
CallReconstruct(r) ==
    /\ calls[r].pc = "rebuild"
    /\ LET c == calls[r]
           tour == c.best_individual.ind
           walk == GaLegs(c.request, c.all_cities, c.cost_matrix, c.time_matrix,
                          c.flight_data, tour, Len(tour) - 1)
           hotel == HotelTotal(HotelCosts(c.all_cities, c.hotels), c.all_cities,
                               c.request, tour)
       IN  IF \E k \in 1 .. Len(tour) : tour[k] >= Len(c.all_cities)
           THEN calls' = [calls EXCEPT ![r] =
                             [c EXCEPT !.pc = "done",
                                       !.result = SolveResponse("Error", <<>>, 0, 0,
                                                      <<"Solver error: index is out of bounds">>)]]
           ELSE calls' = [calls EXCEPT ![r] =
                             [c EXCEPT !.pc = "done",
                                       !.result = SolveResponse("Optimal", walk.legs,
                                                      walk.total_cost + hotel,
                                                      walk.total_duration, NoMessage)]]
    /\ UNCHANGED <<context, rng, tape, soloVars>>

\* Family 5: the inputs of a call
CallInputs ==
    { [request |-> Request({"SP"}, {"RIO"}, {}, FALSE, 1, 0, 1),
       flights |-> TopologyFlights({CityPairs[k] : k \in 1 .. 6}), hotels |-> <<>>],
      [request |-> Request({"SP", "RIO"}, {"RIO"}, {"BH"}, FALSE, 0, 1, 1),
       flights |-> TopologyFlights({<<"SP", "BH">>, <<"BH", "RIO">>, <<"RIO", "BH">>}),
       hotels |-> <<Hotel("BH", 100 * PriceScale)>>],
      [request |-> Request({"SP"}, {"RIO"}, {"BH"}, TRUE, 1, 0, 1),
       flights |-> TopologyFlights({<<"SP", "RIO">>, <<"RIO", "BH">>, <<"BH", "SP">>}),
       hotels |-> <<>>],
      [request |-> Request({"SP", "RIO"}, {"RIO"}, {}, TRUE, 1, 0, 1),
       flights |-> TopologyFlights({<<"SP", "RIO">>, <<"RIO", "SP">>}), hotels |-> <<>>] }

InitSolo ==
    /\ request = Request({}, {}, {}, FALSE, 1, 0, 1)
    /\ flights = <<>>
    /\ hotels = <<>>
    /\ pc = "start"
    /\ all_cities = <<>>
    /\ cost_matrix = <<>>
    /\ time_matrix = <<>>
    /\ score_matrix = <<>>
    /\ flight_data = <<>>
    /\ status = ""
    /\ x = <<>>
    /\ is_start = <<>>
    /\ is_end = <<>>
    /\ current = -1
    /\ visited = {}
    /\ itinerary = <<>>
    /\ total_cost_val = 0
    /\ total_duration_val = 0
    /\ result = <<>>
    /\ context = <<>>
    /\ pop = <<>>
    /\ gen = 0
    /\ best_individual = <<>>

InitCalls ==
    /\ InitSolo
    /\ \E a \in [Calls -> CallInputs] :
          calls = [r \in Calls |-> NewCall(a[r].request, a[r].flights, a[r].hotels)]
    /\ rng = 0
    /\ tape \in [1 .. TapeLen -> DrawVals]

NextSeeded ==
    \E r \in Calls :
        SeededSetup(r) \/ CallPopulate(r) \/ CallGeneration(r) \/ CallSelectBest(r)
            \/ CallReconstruct(r)

SpecSeeded == InitCalls /\ [][NextSeeded]_vars

NextThreads ==
    \E r \in Calls :
        ThreadSetup(r) \/ CallPopulate(r) \/ CallGeneration(r) \/ CallSelectBest(r)
            \/ CallReconstruct(r)

SpecThreads == InitCalls /\ [][NextThreads]_vars

---------------------------------------------------------------------------
(* app/services/geo_service.py and solve_trip of app/api/endpoints/flights.py *)
(* City names: "SP", "RIO", "BH" stand for the entries of Sao Paulo, Rio de *)
(* Janeiro and Belo Horizonte.                                              *)

CITY_TO_IATA ==
    [c \in {"SP", "RIO", "BH", "Brasilia", "Miami", "Orlando", "New York", "London", "Paris"} |->
        CASE c = "SP" -> "GRU" [] c = "RIO" -> "GIG" [] c = "BH" -> "CNF"
          [] c = "Brasilia" -> "BSB" [] c = "Miami" -> "MIA" [] c = "Orlando" -> "MCO"
          [] c = "New York" -> "JFK" [] c = "London" -> "LHR" [] c = "Paris" -> "CDG"]

\* the keys of AIRPORT_COORDS; a coordinate pair is named by its airport
AIRPORT_COORDS == {"GRU", "GIG", "CNF", "BSB", "SSA", "MIA", "MCO", "JFK", "LHR", "CDG"}

\* haversine_distance between two airports of CITY_TO_IATA, in whole km
HaversineTable ==
    << <<"GRU", "GIG", 337>>, <<"GRU", "CNF", 496>>, <<"GRU", "BSB", 854>>,
       <<"GRU", "MIA", 6573>>, <<"GRU", "MCO", 6869>>, <<"GRU", "JFK", 7664>>,
       <<"GRU", "LHR", 9460>>, <<"GRU", "CDG", 9404>>, <<"GIG", "CNF", 362>>,
       <<"GIG", "BSB", 914>>, <<"GIG", "MIA", 6717>>, <<"GIG", "MCO", 7007>>,
       <<"GIG", "JFK", 7729>>, <<"GIG", "LHR", 9253>>, <<"GIG", "CDG", 9183>>,
       <<"CNF", "BSB", 590>>, <<"CNF", "MIA", 6394>>, <<"CNF", "MCO", 6681>>,
       <<"CNF", "JFK", 7375>>, <<"CNF", "LHR", 8966>>, <<"CNF", "CDG", 8908>>,
       <<"BSB", "MIA", 5807>>, <<"BSB", "MCO", 6096>>, <<"BSB", "JFK", 6827>>,
       <<"BSB", "LHR", 8782>>, <<"BSB", "CDG", 8755>>, <<"MIA", "MCO", 310>>,
       <<"MIA", "JFK", 1756>>, <<"MIA", "LHR", 7109>>, <<"MIA", "CDG", 7370>>,
       <<"MCO", "JFK", 1521>>, <<"MCO", "LHR", 6965>>, <<"MCO", "CDG", 7238>>,
       <<"JFK", "LHR", 5540>>, <<"JFK", "CDG", 5833>>, <<"LHR", "CDG", 347>> >>

haversine_distance(coord1, coord2) ==
    IF coord1 = coord2 THEN 0
    ELSE LET k == CHOOSE k \in 1 .. Len(HaversineTable) :
                     {HaversineTable[k][1], HaversineTable[k][2]} = {coord1, coord2}
         IN  HaversineTable[k][3]

\* Optional results: None is <<>>, a value v is <<v>>
get_coords(city) ==
    IF city \in DOMAIN CITY_TO_IATA /\ CITY_TO_IATA[city] \in AIRPORT_COORDS
    THEN <<CITY_TO_IATA[city]>> ELSE <<>>

\* the first city of least distance; the distances of the table are distinct
find_nearest_airport(target_city) ==
    IF get_coords(target_city) = <<>> THEN <<>>
    ELSE LET others == DOMAIN CITY_TO_IATA \ {target_city}
             dist(c) == haversine_distance(get_coords(target_city)[1], get_coords(c)[1])
             nearest_city == CHOOSE c \in others : \A e \in others : dist(c) <= dist(e)
         IN  <<[city |-> nearest_city, dist |-> dist(nearest_city)]>>

suggest_ground_transport(origin_city, dest_city, distance_km) ==
    IF distance_km < 400 THEN "Car Rental suggested."
    ELSE "Distance too far for driving recommendation. Check trains or buses."

\* the synthetic Flight of a drivable pair with the default daily rate:
\* one rental day (fewer than 12 hours at 80 km/h), gas 0.8 per km, price for
\* two people; duration int(dist / 80 * 60)
GroundSegment(city_a, city_b, dist) ==
    Flight(city_a, city_b, (75 * PriceScale) + ((2 * dist * PriceScale) \div 5), (dist * 3) \div 4)

\* generate_ground_segments(cities, start_date, cars) without rental data
generate_ground_segments(cities) ==
    LET n == Len(cities)
        pairs == [k \in 1 .. (n * n) |-> <<cities[((k - 1) \div n) + 1], cities[((k - 1) % n) + 1]>>]
        drivable(p) == /\ p[1] # p[2]
                       /\ get_coords(p[1]) # <<>> /\ get_coords(p[2]) # <<>>
                       /\ haversine_distance(get_coords(p[1])[1], get_coords(p[2])[1]) < 600
        kept == SelectSeq(pairs, drivable)
    IN  [k \in 1 .. Len(kept) |->
            GroundSegment(kept[k][1], kept[k][2],
                          haversine_distance(get_coords(kept[k][1])[1], get_coords(kept[k][2])[1]))]

\* lines 91-126 of solve_trip: the request's cities in the order of list(set(...)),
\* the crawler's offers (already in flights) and the ground segments
Gather ==
    /\ pc = "request"
    /\ \E cities \in Perms(Universe(request)) :
          flights' = flights \o generate_ground_segments(cities)
    /\ pc' = "start"
    /\ UNCHANGED gaVars
    /\ UNCHANGED <<request, hotels, all_cities, cost_matrix, time_matrix, score_matrix,
                   flight_data, status, x, is_start, is_end, current, visited, itinerary,
                   total_cost_val, total_duration_val, result>>

\* the f-string of line 171
Suggestion(dest) ==
    LET nearest == find_nearest_airport(dest)[1]
    IN  <<"Voe para", nearest.city, "e pegue o transporte terrestre",
          suggest_ground_transport(nearest.city, dest, nearest.dist)>>

\* lines 162-171: one suggestion per destination that no offer ends in and
\* that has a nearest airport
RECURSIVE Suggestions(_, _, _)
Suggestions(dests, fl, k) ==
    IF k = 0 THEN <<>>
    ELSE LET before == Suggestions(dests, fl, k - 1)
             dest == dests[k]
             inbound == SelectSeq(fl, LAMBDA f : f.destination = dest)
         IN  IF inbound = <<>> /\ find_nearest_airport(dest) # <<>>
             THEN Append(before, Suggestion(dest))
             ELSE before

\* " | ".join(suggestions)
RECURSIVE JoinSuggestions(_)
JoinSuggestions(sugs) ==
    IF Len(sugs) = 1 THEN sugs[1]
    ELSE sugs[1] \o <<" | ">> \o JoinSuggestions(Tail(sugs))

\* variant: the advice is written whatever the status and resets the totals
AdvisedResetting(res, dests, fl) ==
    [res EXCEPT !.total_cost = 0, !.total_duration = 0,
                !.warning_message = <<"no route">>]

\* lines 157-176: the result after the advice
Advised(res, dests, fl) ==
    IF res.status # "Optimal" /\ Suggestions(dests, fl, Len(dests)) # <<>>
    THEN [res EXCEPT !.warning_message = JoinSuggestions(Suggestions(dests, fl, Len(dests)))]
    ELSE res

\* lines 156-176 of solve_trip, after solve_itinerary has returned
Advise ==
    /\ pc = "done"
    /\ \E dests \in Perms(request.destination_cities) :
          result' = <<Advised(result[1], dests, flights)>>
    /\ pc' = "advised"
    /\ UNCHANGED gaVars
    /\ UNCHANGED <<request, flights, hotels, all_cities, cost_matrix, time_matrix,
                   score_matrix, flight_data, status, x, is_start, is_end, current,
                   visited, itinerary, total_cost_val, total_duration_val>>

\* Family 6: requests to the endpoint and what the crawler returns
EndpointOffers ==
    << Flight("SP", "Miami", 900 * PriceScale, 540), Flight("Miami", "SP", 950 * PriceScale, 560),
       Flight("SP", "Salvador", 300 * PriceScale, 150),
       Flight("Salvador", "SP", 320 * PriceScale, 155) >>

InitEndpointInputs ==
    \E d \in {{"RIO"}, {"Miami"}, {"Salvador"}, {"Miami", "Salvador"}, {"New York"}},
       rt \in BOOLEAN,
       E \in SUBSET (1 .. Len(EndpointOffers)) :
        /\ request = Request({"SP"}, d, {}, rt, 1, 1, 1)
        /\ flights = SelectSeq(EndpointOffers, LAMBDA f : \E k \in E : EndpointOffers[k] = f)
        /\ hotels = <<>>

InitEndpoint ==
    /\ InitEndpointInputs
    /\ pc = "request"
    /\ InitRest

NextEndpoint == Gather \/ Build \/ Solve \/ BeginWalk \/ WalkStep \/ Return \/ Advise

SpecEndpoint == InitEndpoint /\ [][NextEndpoint]_vars

---------------------------------------------------------------------------
(* optimization/solver.py : solve_itinerary (MILP without inflow rows)     *)
(* Lines 131-162 and 181 are the start, end and flow rows of                *)
(* app/services/solver_service.py; StartOk, EndOk and FlowOk stand for them. *)

\* total_pax = request.pax_adults + request.pax_children (no lower bound)
OptTotalPax(req) == req.pax_adults + req.pax_children

\* np.full((n, n), M), np.full((n, n), M), {}
OptEmptyMatrices(n) ==
    [cost  |-> [p \in Idx(n) \X Idx(n) |-> M],
     time  |-> [p \in Idx(n) \X Idx(n) |-> M],
     fdata |-> [p \in Idx(n) \X Idx(n) |-> <<>>]]

\* one iteration of "for f in flights" (lines 36-44): the float price is
\* compared with the integer entry, and the entry keeps int(f.price)
OptMatrixStep(cities, mats, f) ==
    IF InCityMap(cities, f.origin) /\ InCityMap(cities, f.destination)
    THEN LET i == CityIndex(cities, f.origin)
             j == CityIndex(cities, f.destination)
         IN  IF f.price < mats.cost[<<i, j>>] * PriceScale
             THEN [cost  |-> [mats.cost  EXCEPT ![<<i, j>>] = Trunc(f.price)],
                   time  |-> [mats.time  EXCEPT ![<<i, j>>] = f.duration_minutes],
                   fdata |-> [mats.fdata EXCEPT ![<<i, j>>] = <<f>>]]
             ELSE mats
    ELSE mats

RECURSIVE OptBuildMatrices(_, _, _)
OptBuildMatrices(cities, fl, k) ==
    IF k = 0 THEN OptEmptyMatrices(Len(cities))
    ELSE OptMatrixStep(cities, OptBuildMatrices(cities, fl, k - 1), fl[k])

\* stay_cost_total at arrival city j (times PriceScale)
OptStayCost(req, hs, cities, j) ==
    (HotelCost(hs, Len(hs), cities[j + 1]) * req.stay_days_per_city)
        + (req.daily_cost_per_person * req.stay_days_per_city * OptTotalPax(req))

\* coefficient of x[i, j] in the objective (times PriceScale)
OptArcTerm(req, hs, cities, cost, time, p) ==
    LET total_money == (cost[p] * PriceScale * OptTotalPax(req)) + OptStayCost(req, hs, cities, p[2])
        total_minutes == time[p]
    IN  (req.weight_cost * total_money) + (req.weight_time * total_minutes * PriceScale)

\* lpSum(obj_terms): "if f_cost == M: continue" leaves the arc without a term,
\* and no row forces it to zero
OptObjective(req, hs, cities, cost, time, xv) ==
    SumOver({p \in Arcs(Len(cities)) : cost[p] # M /\ xv[p] = 1},
            [p \in Arcs(Len(cities)) |-> OptArcTerm(req, hs, cities, cost, time, p)])

\* u[i] - u[j] + n * x[i, j] <= n - 1  for all i != j
OptMtzHolds(n, xv, u) ==
    \A p \in Arcs(n) : u[p[1]] - u[p[2]] + (n * xv[p]) <= n - 1

\* variant: the rows are relaxed for every arc
OptMtzOkRelaxed(n, xv) == TRUE

\* some u in [0, n]^n satisfies the MTZ rows (integer data: an integer u exists
\* whenever a real one does)
OptMtzOk(n, xv) == \E u \in [Idx(n) -> 0 .. n] : OptMtzHolds(n, xv, u)

\* every assignment (x, is_start, is_end) the model admits
OptFeasibleSet(req, cities) ==
    LET n == Len(cities)
        starts == {sv \in [Idx(n) -> {0, 1}] : StartOk(req, cities, sv)}
        ends(sv) == {ev \in [Idx(n) -> {0, 1}] : EndOk(req, cities, sv, ev)}
        xs(sv, ev) == {xv \in {ArcVector(n, c) : c \in SUBSET Arcs(n)} :
                          /\ FlowOk(n, xv, sv, ev)
                          /\ OptMtzOk(n, xv)}
    IN  UNION {UNION {{[x |-> xv, is_start |-> sv, is_end |-> ev] : xv \in xs(sv, ev)} :
                         ev \in ends(sv)} : sv \in starts}

\* the minimisers of the objective over the feasible set
OptMinimisers(req, hs, cities, cost, time) ==
    LET F == OptFeasibleSet(req, cities)
        obj(a) == OptObjective(req, hs, cities, cost, time, a.x)
    IN  {a \in F : \A b \in F : obj(a) <= obj(b)}

\* lines 16-44: the request's cities and the offers' endpoints in the
\* arbitrary order of list(set(...)), then the matrices
OptBuild ==
    /\ pc = "opt_start"
    /\ \E cities \in Perms(GaUniverse(request, flights)) :
          LET mats == OptBuildMatrices(cities, flights, Len(flights))
          IN  /\ all_cities' = cities
              /\ cost_matrix' = mats.cost
              /\ time_matrix' = mats.time
              /\ flight_data' = mats.fdata
    /\ pc' = "opt_built"
    /\ UNCHANGED gaVars
    /\ UNCHANGED <<request, flights, hotels, score_matrix, status, x, is_start, is_end,
                   current, visited, itinerary, total_cost_val, total_duration_val, result>>

\* lines 55-197: prob.solve(PULP_CBC_CMD(msg=0)); status = LpStatus[prob.status]
OptSolve ==
    /\ pc = "opt_built"
    /\ LET opt == OptMinimisers(request, hotels, all_cities, cost_matrix, time_matrix)
       IN  IF opt = {}
           THEN /\ status' = "Infeasible"
                /\ x' = ZeroAssignment(Len(all_cities)).x
                /\ is_start' = ZeroAssignment(Len(all_cities)).is_start
                /\ is_end' = ZeroAssignment(Len(all_cities)).is_end
           ELSE /\ status' = "Optimal"
                /\ \E a \in opt : x' = a.x /\ is_start' = a.is_start /\ is_end' = a.is_end
    /\ itinerary' = <<>>
    /\ total_cost_val' = 0
    /\ total_duration_val' = 0
    /\ pc' = "opt_solved"
    /\ UNCHANGED gaVars
    /\ UNCHANGED <<request, flights, hotels, all_cities, cost_matrix, time_matrix,
                   score_matrix, flight_data, current, visited, result>>

\* lines 206-220: current = start_node (-1 when no is_start is 1); visited = {current}
OptBeginWalk ==
    /\ pc = "opt_solved"
    /\ IF status = "Optimal"
       THEN /\ current' = StartNode(Len(all_cities), is_start)
            /\ visited' = {StartNode(Len(all_cities), is_start)}
            /\ pc' = "opt_walk"
       ELSE /\ UNCHANGED <<current, visited>>
            /\ pc' = "opt_return"
    /\ UNCHANGED gaVars
    /\ UNCHANGED <<request, flights, hotels, all_cities, cost_matrix, time_matrix,
                   score_matrix, flight_data, status, x, is_start, is_end, itinerary,
                   total_cost_val, total_duration_val, result>>

\* variant: a longer safety limit
StepLimitLoose(n) == n + 7

\* "while steps < n + 5"
StepLimit(n) == n + 5

\* the dict appended for the hop (lines 232-291): the offer's own price and
\* duration, or the matrix entries when no offer is kept for the pair
OptLeg(cities, cost, time, fdata, cur, nxt) ==
    [origin      |-> cities[cur + 1],
     destination |-> cities[nxt + 1],
     flight      |-> fdata[<<cur, nxt>>],
     price       |-> IF fdata[<<cur, nxt>>] = <<>> THEN cost[<<cur, nxt>>] * PriceScale
                     ELSE fdata[<<cur, nxt>>][1].price,
     duration    |-> IF fdata[<<cur, nxt>>] = <<>> THEN time[<<cur, nxt>>]
                     ELSE fdata[<<cur, nxt>>][1].duration_minutes]

\* lines 221-307: one iteration of "while steps < n + 5".  steps is increased
\* exactly when a leg is appended, so steps = len(itinerary) at the loop test.
\* With current = -1 the lookup x[current, j] raises KeyError, which nothing
\* catches: the call ends without a result.
OptWalkStep ==
    /\ pc = "opt_walk"
    /\ IF ~(Len(itinerary) < StepLimit(Len(all_cities)))
       THEN /\ pc' = "opt_return"
            /\ UNCHANGED <<itinerary, total_cost_val, total_duration_val, current>>
       ELSE IF current = -1
       THEN /\ pc' = "raised"
            /\ UNCHANGED <<itinerary, total_cost_val, total_duration_val, current>>
       ELSE LET next_hop == NextHop(Len(all_cities), x, current)
            IN  IF next_hop # -1
                THEN LET leg == OptLeg(all_cities, cost_matrix, time_matrix, flight_data,
                                       current, next_hop)
                     IN  /\ itinerary' = Append(itinerary, leg)
                         /\ total_cost_val' = total_cost_val + leg.price
                         /\ total_duration_val' = total_duration_val + leg.duration
                         /\ current' = next_hop
                         /\ pc' = IF is_end[next_hop] = 1 THEN "opt_return" ELSE "opt_walk"
                ELSE /\ pc' = "opt_return"
                     /\ UNCHANGED <<itinerary, total_cost_val, total_duration_val, current>>
    /\ UNCHANGED gaVars
    /\ UNCHANGED <<request, flights, hotels, all_cities, cost_matrix, time_matrix,
                   score_matrix, flight_data, status, x, is_start, is_end, visited, result>>

\* lines 309-316: the returned dict (total_price repeats total_cost)
OptReturn ==
    /\ pc = "opt_return"
    /\ result' = <<[status |-> status, itinerary |-> itinerary, total_cost |-> total_cost_val,
                    total_duration |-> total_duration_val]>>
    /\ pc' = "done"
    /\ UNCHANGED gaVars
    /\ UNCHANGED <<request, flights, hotels, all_cities, cost_matrix, time_matrix,
                   score_matrix, flight_data, status, x, is_start, is_end, current,
                   visited, itinerary, total_cost_val, total_duration_val>>

NextOpt == OptBuild \/ OptSolve \/ OptBeginWalk \/ OptWalkStep \/ OptReturn

\* Family 10: requests and offer sets for optimization/solver.py
InitOptInputs ==
    \E o \in {{"SP"}, {"SP", "RIO"}}, d \in {{"RIO"}, {"BH"}}, m \in {{}, {"BH"}},
       rt \in BOOLEAN, E \in GaEdgeSets :
        /\ request = Request(o, d, m, rt, 1, 1, 1)
        /\ flights = TopologyFlights(E)
        /\ hotels = <<>>

InitOpt ==
    /\ InitOptInputs
    /\ pc = "opt_start"
    /\ InitRest

SpecOpt == InitOpt /\ [][NextOpt]_vars

---------------------------------------------------------------------------
(* The reconstruction walks on arbitrary values of the solved variables *)

WalkCities == <<"SP", "RIO", "BH">>

\* Family 8: after an Optimal status, any 0/1 values of x, is_start and is_end
\* over three cities with an offer on every pair, in either MILP solver
InitWalkInputs ==
    \E rt \in BOOLEAN :
        /\ request = Request({"SP"}, {"RIO"}, {"BH"}, rt, 1, 1, 1)
        /\ flights = TopologyFlights({CityPairs[k] : k \in 1 .. 6})
        /\ hotels = <<>>

InitWalk ==
    /\ InitWalkInputs
    /\ pc \in {"solved", "opt_solved"}
    /\ all_cities = WalkCities
    /\ LET mats == BuildMatrices(request, WalkCities, flights, Len(flights))
       IN  /\ cost_matrix = mats.cost
           /\ time_matrix = mats.time
           /\ score_matrix = mats.score
           /\ flight_data = mats.fdata
    /\ status = "Optimal"
    /\ x \in [Arcs(Len(WalkCities)) -> {0, 1}]
    /\ is_start \in [Idx(Len(WalkCities)) -> {0, 1}]
    /\ is_end \in [Idx(Len(WalkCities)) -> {0, 1}]
    /\ current = -1
    /\ visited = {}
    /\ itinerary = <<>>
    /\ total_cost_val = 0
    /\ total_duration_val = 0
    /\ result = <<>>
    /\ context = <<>>
    /\ pop = <<>>
    /\ gen = 0
    /\ best_individual = <<>>
    /\ calls = <<>>
    /\ rng = 0
    /\ tape = <<>>

NextWalk == BeginWalk \/ WalkStep \/ Return \/ OptBeginWalk \/ OptWalkStep \/ OptReturn

\* the interpreter keeps running the call: every enabled step is taken
SpecWalk == InitWalk /\ [][NextWalk]_vars /\ WF_vars(NextWalk)

---------------------------------------------------------------------------
(* Vocabulary of the properties *)

Done == pc = "done"

Res == result[1]

Legs == Res.itinerary

N == Cardinality(Universe(request))

IsChain(legs) == \A k \in 1 .. (Len(legs) - 1) : legs[k].destination = legs[k + 1].origin

EntriesOf(legs, c) == Cardinality({k \in 1 .. Len(legs) : legs[k].destination = c})

DeparturesOf(legs, c) == Cardinality({k \in 1 .. Len(legs) : legs[k].origin = c})

RequiredCities == request.mandatory_cities \cup request.destination_cities

EndCandidates ==
    IF request.is_round_trip THEN request.origin_cities ELSE request.destination_cities

\* the cities strictly inside the chain
Intermediate(legs) == {legs[k].destination : k \in 1 .. (Len(legs) - 1)}

RECURSIVE SumSeq(_, _)
SumSeq(sq, k) == IF k = 0 THEN 0 ELSE sq[k] + SumSeq(sq, k - 1)

OffersFor(o, d) == {k \in 1 .. Len(flights) : flights[k].origin = o /\ flights[k].destination = d}

HasOffer(o, d) == OffersFor(o, d) # {}

---------------------------------------------------------------------------
(* Properties of the MILP solve_itinerary *)

OptimalMilp == Done /\ Res.status = "Optimal" /\ N >= 2

\* how often the chain is at city c: once for each leg entering it, and once
\* more when an open-jaw chain starts there
VisitsOf(legs, c) ==
    EntriesOf(legs, c)
        + (IF ~request.is_round_trip /\ Len(legs) >= 1 /\ legs[1].origin = c THEN 1 ELSE 0)

ChainShape(legs) ==
    /\ Len(legs) >= 1
    /\ IsChain(legs)
    /\ legs[1].origin \in request.origin_cities
    /\ legs[Len(legs)].destination \in EndCandidates
    /\ \A c \in Intermediate(legs) : EntriesOf(legs, c) = 1 /\ c # legs[1].origin

\* C1 as stated: an Optimal result over at least two cities is one contiguous
\* chain from an origin city to an allowed end city, which ENTERS every
\* mandatory and destination city exactly once and repeats no intermediate city.
C1_EntersEveryRequiredCity ==
    OptimalMilp =>
        /\ ChainShape(Legs)
        /\ \A c \in RequiredCities : EntriesOf(Legs, c) = 1

\* C1 amended: an Optimal result over at least two cities is one contiguous
\* chain from an origin city to an allowed end city, which VISITS every
\* mandatory and destination city exactly once (the city is entered by exactly
\* one leg or, for open-jaw, is the start of the chain and entered by none)
\* and repeats no intermediate city.
C1_VisitsEveryRequiredCity ==
    OptimalMilp =>
        /\ ChainShape(Legs)
        /\ \A c \in RequiredCities : VisitsOf(Legs, c) = 1

C1_Witness ==
    /\ OptimalMilp
    /\ Len(Legs) = 2
    /\ ~request.is_round_trip
    /\ request.mandatory_cities # {}

NoOffers(c) ==
    \A k \in 1 .. Len(flights) : flights[k].origin # c /\ flights[k].destination # c

\* C2: when some mandatory city has no inbound and no outbound offer (at least
\* two cities), the result is Infeasible, for open-jaw and round trip alike.
C2_IsolatedMandatoryInfeasible ==
    (Done /\ N >= 2 /\ \E c \in request.mandatory_cities : NoOffers(c))
        => Res.status = "Infeasible"

C2_Witness ==
    /\ Done /\ N >= 2
    /\ \E c \in request.mandatory_cities : NoOffers(c)
    /\ \E o \in request.origin_cities, d \in request.destination_cities : o # d /\ HasOffer(o, d)
    /\ Res.status = "Infeasible"

\* C3: an Optimal round-trip result with legs ends in the city it starts from.
C3_RoundTripReturnsToStart ==
    (Done /\ request.is_round_trip /\ Res.status = "Optimal" /\ Len(Legs) >= 1)
        => Legs[Len(Legs)].destination = Legs[1].origin

C3_Witness ==
    /\ Done /\ request.is_round_trip /\ Res.status = "Optimal"
    /\ Len(Legs) = 3
    /\ Cardinality(request.origin_cities) = 2

\* C4: on Scenario A the result is Optimal, its legs are SP -> BH then
\* BH -> RIO, and total_cost is the price of the SP -> BH offer plus the
\* price of the BH -> RIO offer (flights[2] and flights[6]).
C4_ScenarioA ==
    Done =>
        /\ Res.status = "Optimal"
        /\ Len(Legs) = 2
        /\ Legs[1].origin = "SP" /\ Legs[1].destination = "BH"
        /\ Legs[2].origin = "BH" /\ Legs[2].destination = "RIO"
        /\ Res.total_cost = flights[2].price + flights[6].price

\* C5: once the matrices are built, the offer kept for a pair that has offers
\* scores no more than any offer supplied for the pair.
C5_KeptOfferHasMinimalScore ==
    pc # "start" =>
        \A i, j \in Idx(Len(all_cities)) :
            LET offers == OffersFor(all_cities[i + 1], all_cities[j + 1])
            IN  offers # {} =>
                  /\ flight_data[<<i, j>>] # <<>>
                  /\ \A k \in offers :
                        Score(request, flight_data[<<i, j>>][1]) <= Score(request, flights[k])

C5_Witness ==
    /\ pc = "built"
    /\ Len(flights) = 3
    /\ flights[1].origin = "SP" /\ flights[2].origin = "SP" /\ flights[3].origin = "SP"
    /\ Score(request, flights[2]) < Score(request, flights[1])
    /\ Score(request, flights[2]) < Score(request, flights[3])
    /\ flight_data[<<CityIndex(all_cities, "SP"), CityIndex(all_cities, "RIO")>>] = <<flights[2]>>

\* C6: in an Optimal result total_cost is the sum of the legs' prices and
\* total_duration the sum of their durations.
C6_TotalsAreLegSums ==
    (Done /\ Res.status = "Optimal") =>
        /\ Res.total_cost = SumSeq([k \in 1 .. Len(Legs) |-> Legs[k].price], Len(Legs))
        /\ Res.total_duration = SumSeq([k \in 1 .. Len(Legs) |-> Legs[k].duration], Len(Legs))

C6_Witness ==
    /\ Done /\ Res.status = "Optimal"
    /\ Len(Legs) = 3
    /\ Res.total_cost > Legs[3].price

\* C7: every call returns a result whose status is one of Optimal, Infeasible
\* and Error, whatever the underlying solve does; a solve that stops without
\* an answer yields Infeasible.
C7_StatusVocabulary ==
    Done =>
        /\ Res.status \in {"Optimal", "Infeasible", "Error"}
        /\ (status \in {"Not Solved", "Undefined"} => Res.status = "Infeasible")

InjectiveSeqs(S, k) == {t \in [1 .. k -> S] : \A a, b \in 1 .. k : a # b => t[a] # t[b]}

\* a tour with the Tour invariants over pairs that have an offer
ValidTour(t) ==
    /\ t[1] \in request.origin_cities
    /\ \A k \in 1 .. (Len(t) - 1) : HasOffer(t[k], t[k + 1])
    /\ IF request.is_round_trip
       THEN HasOffer(t[Len(t)], t[1])
       ELSE t[Len(t)] \in request.destination_cities
    /\ RequiredCities \subseteq {t[k] : k \in 1 .. Len(t)}

TourExists ==
    \E k \in 2 .. N : \E t \in InjectiveSeqs(Universe(request), k) : ValidTour(t)

\* C8: whenever a tour with the Tour invariants exists over pairs that have an
\* offer, the result is Optimal with a non-empty itinerary and, all prices
\* being positive, a positive total_cost.
C8_TourExistsThenOptimal ==
    (Done /\ TourExists) =>
        /\ Res.status = "Optimal"
        /\ Legs # <<>>
        /\ ((\A k \in 1 .. Len(flights) : flights[k].price > 0) => Res.total_cost > 0)

---------------------------------------------------------------------------
(* Properties of the NSGA-II solve_itinerary *)

\* C9: when there is no offer at all, or a mandatory city has neither an
\* inbound nor an outbound offer, the NSGA-II result is Infeasible (never
\* Optimal), whatever the random choices were.
C9_NoTourThenInfeasible ==
    (Done /\ (flights = <<>> \/ \E c \in request.mandatory_cities : NoOffers(c)))
        => Res.status = "Infeasible"

\* C10: an Optimal NSGA-II result for a round trip ends in the city it starts
\* from.
C10_GaRoundTripReturnsToStart ==
    (Done /\ request.is_round_trip /\ Res.status = "Optimal" /\ Len(Legs) >= 1)
        => Legs[Len(Legs)].destination = Legs[1].origin

\* the offers of test_nsga2_solver.py: origin -> destination -> mandatory -> origin
CycleRequest ==
    /\ request.is_round_trip
    /\ request.origin_cities = {"SP"}
    /\ request.destination_cities = {"RIO"}
    /\ request.mandatory_cities = {"BH"}
    /\ {<<flights[k].origin, flights[k].destination>> : k \in 1 .. Len(flights)}
          = {<<"SP", "RIO">>, <<"RIO", "BH">>, <<"BH", "SP">>}

\* C11: on the round trip of test_nsga2_solver.py (one origin, one destination,
\* one mandatory city, offers forming the cycle through the three) the NSGA-II
\* result has status Optimal or Feasible, at least one leg, total_cost > 0 and
\* total_duration > 0, whatever the random choices were.
C11_CycleRequestSolved ==
    (Done /\ CycleRequest)
        => /\ Res.status \in {"Optimal", "Feasible"}
           /\ Legs # <<>>
           /\ Res.total_cost > 0
           /\ Res.total_duration > 0

---------------------------------------------------------------------------
(* Properties of several NSGA-II calls *)

SameInputs(a, b) ==
    /\ calls[a].request = calls[b].request
    /\ calls[a].flights = calls[b].flights
    /\ calls[a].hotels = calls[b].hotels

OwnContext(r) ==
    SolverContext(calls[r].request, calls[r].all_cities,
                  [cost |-> calls[r].cost_matrix, time |-> calls[r].time_matrix,
                   fdata |-> calls[r].flight_data],
                  calls[r].hotels)

\* C13: when calls interleave, every creation and evaluation of individuals
\* done for a call reads the context of that call, and no solver state is
\* left when no call is running.
C13_CallsAreIsolated ==
    /\ \A r \in Calls : \A c \in calls[r].read : c = OwnContext(r)
    /\ (\A r \in Calls : calls[r].pc \in {"start", "done"}) => context = <<>>

---------------------------------------------------------------------------
(* Properties of solve_trip *)

Responded == pc = "advised"

NoInbound(c) == \A k \in 1 .. Len(flights) : flights[k].destination # c

\* C14: when some requested destination has no inbound offer (no flight and
\* no ground segment ends there), the endpoint's result has status Infeasible
\* and a non-empty advisory message, whatever the name of the city.
C14_ScenarioC ==
    (Responded /\ \E c \in request.destination_cities : NoInbound(c))
        => (Res.status = "Infeasible" /\ Res.warning_message # NoMessage)

\* C15: the advice step runs only on a result whose status is not Optimal,
\* does not start the solver again, and leaves status, legs, total_cost and
\* total_duration as the solver returned them; it writes the message only.
C15_AdviceOnlyWritesMessage ==
    [][(pc = "done" /\ pc' = "advised")
          => /\ result'[1].status = result[1].status
             /\ result'[1].itinerary = result[1].itinerary
             /\ result'[1].total_cost = result[1].total_cost
             /\ result'[1].total_duration = result[1].total_duration
             /\ (result' # result => result[1].status # "Optimal")
             /\ UNCHANGED <<status, itinerary, total_cost_val, total_duration_val, x,
                            is_start, is_end, cost_matrix, time_matrix, score_matrix,
                            flight_data, all_cities, request, flights, hotels>>]_vars

C15_Witness ==
    /\ Responded
    /\ Res.status = "Infeasible"
    /\ Res.warning_message # NoMessage
    /\ \E c \in request.destination_cities : NoInbound(c)

---------------------------------------------------------------------------
(* Properties of the matrices *)

OfferEndpoints ==
    {flights[k].origin : k \in 1 .. Len(flights)}
        \cup {flights[k].destination : k \in 1 .. Len(flights)}

\* C16: the cities over which the MILP solve_itinerary builds its matrices
\* are the request's origin, destination and mandatory cities together with
\* the origin and destination of every supplied offer.
C16_UniverseHasOfferEndpoints ==
    pc # "start" =>
        {all_cities[k] : k \in 1 .. Len(all_cities)}
            = request.origin_cities \cup request.destination_cities
                \cup request.mandatory_cities \cup OfferEndpoints

\* the offers of least score among those supplied for the pair
MinimalScoreOffers(o, d) ==
    {k \in OffersFor(o, d) :
        \A e \in OffersFor(o, d) : Score(request, flights[k]) <= Score(request, flights[e])}

\* C17: among the offers of a pair that share the least score, the MILP
\* matrix keeps one of lowest price, in whatever order they are supplied.
C17_TieKeepsLowestPrice ==
    pc # "start" =>
        \A i, j \in Idx(Len(all_cities)) :
            \A k \in MinimalScoreOffers(all_cities[i + 1], all_cities[j + 1]) :
                /\ flight_data[<<i, j>>] # <<>>
                /\ flight_data[<<i, j>>][1].price <= flights[k].price

\* the weighted score of what the matrices hold for a pair
MatrixScore(req, price, duration) ==
    (req.weight_cost * price * TotalPax(req)) + (req.weight_time * duration * PriceScale)

\* C18: in the matrices of the NSGA-II solve_itinerary, the price and the
\* duration kept for a pair that has offers give a weighted score no greater
\* than the score of any offer supplied for the pair.
C18_GaKeptOfferHasMinimalScore ==
    (pc # "start" /\ Len(all_cities) >= 2) =>
        \A i, j \in Idx(Len(all_cities)) :
            \A k \in OffersFor(all_cities[i + 1], all_cities[j + 1]) :
                MatrixScore(request, cost_matrix[<<i, j>>], time_matrix[<<i, j>>])
                    <= Score(request, flights[k])

---------------------------------------------------------------------------
(* Properties of the MILP model *)

\* the node reached from cur after k hops along the selected arcs, -1 if none
RECURSIVE HopsFrom(_, _, _, _)
HopsFrom(n, xv, cur, k) ==
    IF k = 0 THEN cur
    ELSE LET prev == HopsFrom(n, xv, cur, k - 1)
         IN  IF prev = -1 THEN -1 ELSE NextHop(n, xv, prev)

\* the selected arcs are exactly the arcs of one walk from the start that
\* repeats no city, and the walk closes at the start or stops at the end
SinglePathOrCycle(n, a) ==
    LET s == StartNode(n, a.is_start)
        chosen == {p \in Arcs(n) : a.x[p] = 1}
        m == Cardinality(chosen)
        node(k) == HopsFrom(n, a.x, s, k)
    IN  /\ \A k \in 0 .. m : node(k) # -1
        /\ chosen = {<<node(k - 1), node(k)>> : k \in 1 .. m}
        /\ \A j, k \in 0 .. (m - 1) : j # k => node(j) # node(k)
        /\ \/ node(m) = s
           \/ (a.is_end[node(m)] = 1 /\ \A k \in 0 .. (m - 1) : node(k) # node(m))

\* the assignments that meet every row of the model except the MTZ rows and
\* are not a single path or cycle
SubtourCandidates(req, cities, cost) ==
    LET n == Len(cities)
        starts == {sv \in [Idx(n) -> {0, 1}] : StartOk(req, cities, sv)}
        ends(sv) == {ev \in [Idx(n) -> {0, 1}] : EndOk(req, cities, sv, ev)}
        xs(sv, ev) == {xv \in {ArcVector(n, c) : c \in SUBSET FreeArcs(n, cost)} :
                          /\ InflowOk(req, n, xv, sv)
                          /\ FlowOk(n, xv, sv, ev)
                          /\ ~SinglePathOrCycle(n, [x |-> xv, is_start |-> sv, is_end |-> ev])}
    IN  UNION {UNION {{[x |-> xv, is_start |-> sv, is_end |-> ev] : xv \in xs(sv, ev)} :
                         ev \in ends(sv)} : sv \in starts}

\* C19: every assignment of x, is_start and is_end that the model admits
\* (start and end rows, inflow, flow conservation, relaxed MTZ rows for some
\* u in [0, n]) selects the arcs of a single path from the start to the end
\* or of a single cycle through the start.
C19_FeasibleIsSinglePathOrCycle ==
    pc = "built" =>
        \A a \in FeasibleSet(request, all_cities, cost_matrix) :
            SinglePathOrCycle(Len(all_cities), a)

C19_Witness ==
    /\ pc = "built"
    /\ Len(all_cities) = 4
    /\ FeasibleSet(request, all_cities, cost_matrix) # {}
    /\ SubtourCandidates(request, all_cities, cost_matrix) # {}

\* C20: every leg of an Optimal MILP itinerary joins a pair whose cost is not
\* the sentinel and for which an offer was kept.
C20_LegsHaveOffers ==
    (Done /\ Res.status = "Optimal") =>
        \A k \in 1 .. Len(Legs) :
            LET i == CityIndex(all_cities, Legs[k].origin)
                j == CityIndex(all_cities, Legs[k].destination)
            IN  /\ cost_matrix[<<i, j>>] # M
                /\ flight_data[<<i, j>>] # <<>>
                /\ HasOffer(Legs[k].origin, Legs[k].destination)

C20_Witness ==
    /\ Done
    /\ Res.status = "Optimal"
    /\ Len(Legs) = 2
    /\ \E p \in Arcs(Len(all_cities)) : cost_matrix[p] = M

---------------------------------------------------------------------------
(* Properties of the reconstruction walks *)

WalkEnded == pc \in {"done", "raised"}

\* C21: on every 0/1 value of x, is_start and is_end (selections with a cycle
\* that never reaches the end city or with several selected arcs out of one
\* city included) the reconstruction walk of either MILP solver emits at most
\* n + 5 legs and comes to an end.
C21_WalkTerminates ==
    /\ [](Len(itinerary) <= Len(all_cities) + 5)
    /\ <>WalkEnded

C21_Witness ==
    /\ pc = "done"
    /\ Len(itinerary) = Len(all_cities) + 5
    /\ \E k \in Idx(Len(all_cities)) : Outgoing(Len(all_cities), x, k) >= 2
    /\ \A k \in 1 .. Len(itinerary) : is_end[CityIndex(all_cities, itinerary[k].destination)] = 0

---------------------------------------------------------------------------
(* Properties of the NSGA-II population *)

\* each index of range(n) exactly once, no None
IsPermutation(t, n) == Len(t) = n /\ {t[k] : k \in 1 .. Len(t)} = Idx(n)

\* C22: every individual of the population, at every generation, is a
\* permutation of the n city indices; so are the greedy individual, both
\* children of _crossover_ox for every pair of permutation parents and cut
\* points, and every outcome of _mutate_swap and _mutate_insert on an
\* individual of the population.
C22_IndividualsArePermutations ==
    (pc = "evolve" /\ context # <<>>) =>
        /\ \A k \in 1 .. Len(pop) :
              /\ IsPermutation(pop[k].ind, context.n)
              /\ \A m \in MutateSwap(pop[k].ind, Len(pop[k].ind)) : IsPermutation(m, context.n)
              /\ \A m \in MutateInsert(pop[k].ind) : IsPermutation(m, context.n)
        /\ IsPermutation(CreateGreedyIndividual(context), context.n)
        /\ \A p1, p2 \in IndexPermutations(context.n) :
              \A ch \in CrossoverOx(p1, p2) :
                  IsPermutation(ch[1], context.n) /\ IsPermutation(ch[2], context.n)

C22_Witness ==
    /\ pc = "evolve"
    /\ gen = Generations
    /\ context.n = 3
    /\ pop[1].ind # pop[2].ind
    /\ \E k \in 1 .. Len(pop) : ~IsValidTour(context, pop[k].ind)
    /\ \E k \in 1 .. Len(pop) : IsValidTour(context, pop[k].ind)


\* the least value of objective o (1: cost, 2: duration) in a population
MinObjective(P, o) ==
    CHOOSE v \in {P[k].fit[o] : k \in 1 .. Len(P)} :
        \A k \in 1 .. Len(P) : v <= P[k].fit[o]

\* C23: across one generation, every individual of the first front of the
\* population is found unchanged in the next population, and the least cost
\* and the least duration of the population do not get worse.
C23_FirstFrontSurvives ==
    [][(pc = "evolve" /\ gen' = gen + 1)
          => /\ \A i \in ParetoFront(pop) : \E j \in 1 .. Len(pop') : pop'[j] = pop[i]
             /\ MinObjective(pop', 1) <= MinObjective(pop, 1)
             /\ MinObjective(pop', 2) <= MinObjective(pop, 2)]_vars


\* C24: the individual returned from the final first front has the least
\* cost of the front when weight_cost > weight_time, and the least duration
\* of the front otherwise (equal weights included).
C24_BestOfFrontFollowsWeights ==
    (pc \in {"rebuild", "done"} /\ best_individual # <<>>) =>
        /\ \E i \in ParetoFront(pop) : pop[i] = best_individual
        /\ \A j \in ParetoFront(pop) :
              IF request.weight_cost > request.weight_time
              THEN best_individual.fit[1] <= pop[j].fit[1]
              ELSE best_individual.fit[2] <= pop[j].fit[2]

\* a final front with two trade-offs, the second of the population being chosen
C24_Witness ==
    /\ pc = "done"
    /\ request.weight_cost = request.weight_time
    /\ Cardinality({pop[i].fit : i \in ParetoFront(pop)}) = 2
    /\ best_individual = pop[2]
    /\ best_individual.fit[2] < pop[1].fit[2]
    /\ pop[1].fit[1] < Penalty


\* the cities an advisory message tells the traveller to fly to
AdvisedCities(msg) == {msg[k + 1] : k \in {q \in 1 .. (Len(msg) - 1) : msg[q] = "Voe para"}}

HasOffers(c) ==
    \E k \in 1 .. Len(flights) : flights[k].origin = c \/ flights[k].destination = c

\* below this distance suggest_ground_transport recommends driving
DrivableKm == 400

\* great-circle distance between two cities with coordinates
CityDistance(a, b) == haversine_distance(get_coords(a)[1], get_coords(b)[1])

\* C25: every city an advisory names has offers and is, for some requested
\* destination without inbound offer, the nearest of the cities with offers
\* and nearer than the drivable threshold.
C25_AdvisoryNamesNearestWithOffers ==
    Responded =>
        \A c \in AdvisedCities(Res.warning_message) :
            /\ HasOffers(c)
            /\ \E dest \in request.destination_cities :
                  /\ NoInbound(dest)
                  /\ get_coords(dest) # <<>>
                  /\ CityDistance(dest, c) < DrivableKm
                  /\ \A e \in DOMAIN CITY_TO_IATA \ {dest} :
                        HasOffers(e) => CityDistance(dest, c) <= CityDistance(dest, e)


---------------------------------------------------------------------------
(* Properties of solve_itinerary in optimization/solver.py *)

\* C26: an Optimal result of optimization/solver.py over at least two cities
\* has a non-empty itinerary that is one chain starting at a city of
\* origin_cities, ending at a city of destination_cities (open-jaw) or at its
\* start (round trip), visiting every mandatory and destination city exactly
\* once, over ordered pairs that have an offer.
C26_OptimalHasTourInvariants ==
    (Done /\ Res.status = "Optimal" /\ Len(all_cities) >= 2) =>
        /\ Legs # <<>>
        /\ IsChain(Legs)
        /\ Legs[1].origin \in request.origin_cities
        /\ IF request.is_round_trip
           THEN Legs[Len(Legs)].destination = Legs[1].origin
           ELSE Legs[Len(Legs)].destination \in request.destination_cities
        /\ \A c \in RequiredCities : VisitsOf(Legs, c) = 1
        /\ \A k \in 1 .. Len(Legs) : HasOffer(Legs[k].origin, Legs[k].destination)


---------------------------------------------------------------------------
(* Properties of the NSGA-II result *)

\* C27: in an Optimal NSGA-II result total_cost and total_duration are the
\* two fitness values of the individual selected from the final front, and
\* the itinerary is a chain of n - 1 legs, one for each pair of consecutive
\* elements of that individual.
C27_TotalsAreTheFitness ==
    (Done /\ Res.status = "Optimal" /\ best_individual # <<>>) =>
        /\ Res.total_cost = best_individual.fit[1]
        /\ Res.total_duration = best_individual.fit[2]
        /\ Len(Legs) = Len(best_individual.ind) - 1
        /\ IsChain(Legs)
        /\ \A k \in 1 .. Len(Legs) :
              /\ Legs[k].origin = all_cities[best_individual.ind[k] + 1]
              /\ Legs[k].destination = all_cities[best_individual.ind[k + 1] + 1]


---------------------------------------------------------------------------
(* Properties of the compression of the offers *)

\* the weighted term of a leg flown with offer f and arriving at city index j
\* (times PriceScale)
LegTerm(f, j) ==
    Score(request, f) + (request.weight_cost * StayCost(request, hotels, all_cities, j))

SelectedArcs(a) == {p \in Arcs(Len(all_cities)) : a.x[p] = 1}

\* the weighted total of tour a flown with the retained offers
RetainedTotal(a) ==
    SumOver(SelectedArcs(a),
            [p \in Arcs(Len(all_cities)) |->
                IF flight_data[p] = <<>> THEN 0 ELSE LegTerm(flight_data[p][1], p[2])])

\* the ways of picking one supplied offer for every leg of tour a
OfferChoices(a) ==
    {c \in [SelectedArcs(a) -> 1 .. Len(flights)] :
        \A p \in SelectedArcs(a) :
            c[p] \in OffersFor(all_cities[p[1] + 1], all_cities[p[2] + 1])}

\* the weighted total of tour a flown with the offers of choice c
ChosenTotal(a, c) ==
    SumOver(SelectedArcs(a),
            [p \in Arcs(Len(all_cities)) |->
                IF p \in SelectedArcs(a) THEN LegTerm(flights[c[p]], p[2]) ELSE 0])

Tours == FeasibleSet(request, all_cities, cost_matrix)

---------------------------------------------------------------------------
(* Properties of the legs of the MILP result *)

\* C29: every leg of a MILP result carries the price and the duration of the
\* offer it references, for whole and fractional prices alike.
C29_LegCarriesOfferPrice ==
    Done =>
        \A k \in 1 .. Len(Legs) :
            Legs[k].flight # <<>> =>
                /\ Legs[k].price = Legs[k].flight[1].price
                /\ Legs[k].duration = Legs[k].flight[1].duration_minutes

\* how often the reconstructed walk is at city c: once for each leg entering
\* it, and once more when an open-jaw walk starts there
WalkVisitsOf(c) ==
    EntriesOf(Legs, c)
        + (IF ~request.is_round_trip
              /\ all_cities[StartNode(Len(all_cities), is_start) + 1] = c THEN 1 ELSE 0)

\* C30: an Optimal MILP result visits every city of the universe exactly
\* once, the origin candidates not chosen as start and the destination
\* candidates not chosen as end included: n - 1 legs for open-jaw and n legs
\* for a round trip, n being the number of distinct requested cities.
C30_EveryCityVisitedOnce ==
    (Done /\ Res.status = "Optimal") =>
        /\ \A c \in Universe(request) : WalkVisitsOf(c) = 1
        /\ IsChain(Legs)
        /\ Len(Legs) = (IF request.is_round_trip THEN N ELSE N - 1)

C30_Witness ==
    /\ Done
    /\ Res.status = "Optimal"
    /\ ~request.is_round_trip
    /\ Cardinality(request.origin_cities) = 2
    /\ Cardinality(request.destination_cities) = 2
    /\ N = 3
    /\ Len(Legs) = 2

=============================================================================
